---- MODULE Spec2Model ----
(***************************************************************************)
(* Sortingshop: the media-collection model and the metadata-tagging        *)
(* engine (TagList, MetadataSource, MediaFile, MediaList).                 *)
(*                                                                         *)
(* Strings are modelled as sequences of one-character strings, so that     *)
(* startswith, rfind, slicing and the code-point order of sort() are       *)
(* computed as Python computes them.                                       *)
(***************************************************************************)
EXTENDS Integers, Sequences, FiniteSets, TLC

VARIABLES
    pc,       \* position of the caller: "idle", "done1" (a call returned),
              \* "done2" (the same call was repeated at once and returned)
    tags,     \* TagList.__tags of the current source (a list without
              \* duplicates whose order is never read: kept as a set)
    exists,   \* MetadataSource.exists(): the source's file is on disk
    call,     \* the latest call and its arguments
    res,      \* what the latest call returned / raised / sent to the tool
    before,   \* the object's state when the latest call started
    before2,  \* the object's state when the call before the latest started
    cfg,      \* ConfigSingleton: the configuration values the core reads
    fs,       \* the files on disk: [dir, name], dir "work" or "deleted"
    locked,   \* the files on disk the user may not read and write
    tsets,    \* Tagsets.__tagsets: origin -> (abbreviation -> tags)
    ms,       \* a MetadataSource: its metadata, its date, its loaded flag
    mf,       \* a MediaFile with its sidecars
    ml        \* a MediaList

tagVars == <<tags, exists>>
mediaVars == <<cfg, fs, locked, tsets, ms, mf, ml>>
vars == <<pc, tags, exists, call, res, before, before2, cfg, fs, locked, tsets, ms,
          mf, ml>>

-----------------------------------------------------------------------------
(* Strings *)

\* ord(): the code points of the characters the model uses
Ord(c) ==
    CASE c = "." -> 46 [] c = "0" -> 48 [] c = "1" -> 49 [] c = "2" -> 50
      [] c = "X" -> 88 [] c = "_" -> 95
      [] c = "a" -> 97 [] c = "b" -> 98 [] c = "c" -> 99 [] c = "d" -> 100
      [] c = "g" -> 103 [] c = "j" -> 106 [] c = "m" -> 109 [] c = "p" -> 112
      [] c = "x" -> 120 [] c = "|" -> 124

\* s < t for Python strings: the first differing code point decides, a proper
\* prefix is smaller
StrLess(s, t) ==
    \E i \in 1..Len(t) :
        /\ \A k \in 1..(i - 1) : k <= Len(s) /\ s[k] = t[k]
        /\ (i > Len(s) \/ Ord(s[i]) < Ord(t[i]))

\* str.startswith
StartsWith(s, p) == Len(p) <= Len(s) /\ SubSeq(s, 1, Len(p)) = p

\* str.rfind(c): the 0-based index of the last c, -1 when there is none
RFind(s, c) ==
    IF \E i \in 1..Len(s) : s[i] = c
    THEN (CHOOSE i \in 1..Len(s) :
              s[i] = c /\ \A k \in (i + 1)..Len(s) : s[k] # c) - 1
    ELSE -1

\* s[0:n]
Slice0(s, n) == SubSeq(s, 1, n)

\* list(set(S)) followed by .sort(): the elements of S in ascending order
RECURSIVE SortedSeq(_)
SortedSeq(S) ==
    IF S = {} THEN <<>>
    ELSE LET m == CHOOSE x \in S : \A y \in S \ {x} : StrLess(x, y)
         IN  <<m>> \o SortedSeq(S \ {m})

-----------------------------------------------------------------------------
(* Names and paths *)

Jpg == <<".", "j", "p", "g">>
Xmp == <<".", "x", "m", "p">>

\* Path.suffix: from the last "." on, "" when there is none or the name
\* starts or ends with it
PathSuffix(name) ==
    LET i == RFind(name, ".")
    IN  IF i > 0 /\ i < Len(name) - 1 THEN SubSeq(name, i + 1, Len(name))
        ELSE <<>>

\* Path.stem: the name without its suffix
PathStem(name) == SubSeq(name, 1, Len(name) - Len(PathSuffix(name)))

Digit(d) ==
    CASE d = 0 -> "0" [] d = 1 -> "1" [] d = 2 -> "2" [] d = 3 -> "3"
      [] d = 4 -> "4" [] d = 5 -> "5" [] d = 6 -> "6" [] d = 7 -> "7"
      [] d = 8 -> "8" [] d = 9 -> "9"

\* str(n) of a natural number
RECURSIVE DecStr(_)
DecStr(n) == IF n < 10 THEN <<Digit(n)>> ELSE DecStr(n \div 10) \o <<Digit(n % 10)>>

\* str.zfill(width)
RECURSIVE ZFill(_, _)
ZFill(s, width) == IF Len(s) >= width THEN s ELSE ZFill(<<"0">> \o s, width)

\* Path.exists() / is_file() of dir/name on the disk d
OnDisk(d, dir, name) == [dir |-> dir, name |-> name] \in d

\* MetadataSource._count_name_up: the first name stem_NN suffix that is
\* neither in the working directory nor in its deleted subdirectory
RECURSIVE CountNameUp(_, _, _, _, _)
CountNameUp(d, stem, suffix, counter_length, counter) ==
    LET name == stem \o <<"_">> \o ZFill(DecStr(counter), counter_length) \o suffix
    IN  IF OnDisk(d, "work", name) \/ OnDisk(d, "deleted", name)
        THEN CountNameUp(d, stem, suffix, counter_length, counter + 1)
        ELSE name

-----------------------------------------------------------------------------
(* Tags and tagsets *)

tA    == <<"a">>
tAB   == <<"a", "|", "b">>
tABC  == <<"a", "|", "b", "|", "c">>
tABD  == <<"a", "|", "b", "|", "d">>
tAb   == <<"a", "b">>
tB    == <<"b">>
tBarB == <<"|", "b">>
kX    == <<"X">>

\* the tags a file may carry and a user may type
Universe == {tA, tAB, tABC, tABD, tAb, tB, tBarB}

\* what a user may type: tags and the abbreviation X
Tokens == Universe \cup {kX}

\* the largest number of tokens in one toggle request
MaxBatch == 2

Batches == {b \in SUBSET Tokens : Cardinality(b) <= MaxBatch}

\* tagsets=None
NoTagsets == [given |-> FALSE, local |-> <<>>, global |-> <<>>]

\* a Tagsets object: X is defined locally, nothing globally
DemoTagsets == [given |-> TRUE, local |-> [k \in {kX} |-> {tABC, tB}], global |-> <<>>]

\* Tagsets.__init__, "self.__tagsets = {}"
EmptyTagsets == <<>>

\* Tagsets.get_default_tagset, the abbreviation of the default tagset
kAll == <<"ALL_PICTURES">>

\* a Tagsets object that defines the default tagset
DefaultTagsets == [given |-> TRUE, local |-> [k \in {kAll} |-> {tA}], global |-> <<>>]

\* a lookup that asks the global tagsets first
GetTagsetGlobalFirst(ts, abbreviation) ==
    IF abbreviation \in DOMAIN ts.global THEN ts.global[abbreviation]
    ELSE IF abbreviation \in DOMAIN ts.local THEN ts.local[abbreviation]
    ELSE {}
\* Tagsets.get_tagset: local first, then global, else the empty list
GetTagset(ts, abbreviation) ==
    IF abbreviation \in DOMAIN ts.local THEN ts.local[abbreviation]
    ELSE IF abbreviation \in DOMAIN ts.global THEN ts.global[abbreviation]
    ELSE {}

\* TagList.expand_tagsets followed by list(set(tags))
ExpandTagsets(tags_input, tagsets) ==
    IF ~tagsets.given THEN tags_input
    ELSE UNION {IF GetTagset(tagsets, part) # {} THEN GetTagset(tagsets, part)
                ELSE {part} : part \in tags_input}

-----------------------------------------------------------------------------
(* TagList *)

\* the prefix-ancestors of a tag: what precedes each "|" that is not the
\* tag's first character ("a|b|c" has "a|b" and "a")
Ancestors(t) == {Slice0(t, i - 1) : i \in {k \in 2..Len(t) : t[k] = "|"}}

\* d is a child or deeper descendant of t: a child tag begins with "tag|"
IsDescendant(d, t) == StartsWith(d, t \o <<"|">>)

AncestorClosed(S) == \A t \in S : Ancestors(t) \subseteq S

\* a removal that does not look for children
RECURSIVE RemoveFromTaglistNoChildTest(_, _)
RemoveFromTaglistNoChildTest(S, remove) ==
    IF remove \notin S THEN [tags |-> S, out |-> {}]
    ELSE LET index == RFind(remove, "|")
         IN  IF index > 0
             THEN LET up == RemoveFromTaglistNoChildTest(S \ {remove},
                                                         Slice0(remove, index))
                  IN  [tags |-> up.tags, out |-> {remove} \cup up.out]
             ELSE [tags |-> S \ {remove}, out |-> {remove}]

\* TagList._remove_from_taglist on the list S: [tags |-> the list afterwards,
\* out |-> the tags returned as removed]
RECURSIVE RemoveFromTaglist(_, _)
RemoveFromTaglist(S, remove) ==
    IF remove \notin S THEN [tags |-> S, out |-> {}]
    ELSE IF \E tag \in S : StartsWith(tag, remove \o <<"|">>)
    THEN [tags |-> S, out |-> {}]
    ELSE LET index == RFind(remove, "|")
         IN  IF index > 0
             THEN LET up == RemoveFromTaglist(S \ {remove}, Slice0(remove, index))
                  IN  [tags |-> up.tags, out |-> {remove} \cup up.out]
             ELSE [tags |-> S \ {remove}, out |-> {remove}]

\* an addition that leaves the parents out
AddToTaglistNoParents(S, add) ==
    IF add \in S THEN [tags |-> S, out |-> {}]
    ELSE [tags |-> S \cup {add}, out |-> {add}]

\* TagList._add_to_taglist on the list S
RECURSIVE AddToTaglist(_, _)
AddToTaglist(S, add) ==
    IF add \in S THEN [tags |-> S, out |-> {}]
    ELSE LET index == RFind(add, "|")
         IN  IF index > 0
             THEN LET up == AddToTaglist(S \cup {add}, Slice0(add, index))
                  IN  [tags |-> up.tags, out |-> {add} \cup up.out]
             ELSE [tags |-> S \cup {add}, out |-> {add}]

\* for tag in tags: remove += self._remove_from_taglist(tag)
RECURSIVE RemoveAll(_, _)
RemoveAll(S, seq) ==
    IF seq = <<>> THEN [tags |-> S, add |-> {}, remove |-> {}]
    ELSE LET r    == RemoveFromTaglist(S, Head(seq))
             rest == RemoveAll(r.tags, Tail(seq))
         IN  [tags |-> rest.tags, add |-> {}, remove |-> r.out \cup rest.remove]

\* for tag in tags: add += self._add_to_taglist(tag)
RECURSIVE AddAll(_, _)
AddAll(S, seq) ==
    IF seq = <<>> THEN [tags |-> S, add |-> {}, remove |-> {}]
    ELSE LET r    == AddToTaglist(S, Head(seq))
             rest == AddAll(r.tags, Tail(seq))
         IN  [tags |-> rest.tags, add |-> r.out \cup rest.add, remove |-> {}]

\* the branch test of force_all: all(tag in tags for tag in self.__tags),
\* where tags is the expanded input and self.__tags the list held
ForceAllRemoves(S, input) == \A tag \in S : tag \in input

\* the loop of the else branch: each tag is tested against the list as the
\* tags before it left it
RECURSIVE ToggleEach(_, _, _)
ToggleEach(S, seq, force) ==
    IF seq = <<>> THEN [tags |-> S, add |-> {}, remove |-> {}]
    ELSE LET tag == Head(seq)
             r == IF tag \in S
                  THEN IF force # "in" THEN RemoveFromTaglist(S, tag)
                       ELSE [tags |-> S, out |-> {}]
                  ELSE IF force # "out" THEN AddToTaglist(S, tag)
                       ELSE [tags |-> S, out |-> {}]
             rest == ToggleEach(r.tags, Tail(seq), force)
         IN  [tags   |-> rest.tags,
              add    |-> (IF tag \in S THEN {} ELSE r.out) \cup rest.add,
              remove |-> (IF tag \in S THEN r.out ELSE {}) \cup rest.remove]

\* TagList.toggle_tags: [tags |-> the list afterwards, add, remove |-> the
\* two sets of the returned dict]
ToggleTags(S, tags_input, tagsets, force_all, force) ==
    LET sorted == SortedSeq(ExpandTagsets(tags_input, tagsets))
    IN  IF force_all
        THEN IF ForceAllRemoves(S, ExpandTagsets(tags_input, tagsets))
             THEN RemoveAll(S, sorted)
             ELSE AddAll(S, sorted)
        ELSE ToggleEach(S, sorted, force)

\* TagList.load_tags
LoadTags(S, ts, intersect) ==
    IF ~intersect THEN S \cup {tag \in ts : tag # <<>>}
    ELSE {tag \in ts : tag \in S /\ tag # <<>>}

-----------------------------------------------------------------------------
(* Objects *)

\* a configuration in which every switch is off and the field of the tags is
\* named (field_tags: <<>> when the key is not set)
NoConfig == [use_sidecar |-> FALSE, rename_files |-> FALSE,
             prune_metadata |-> FALSE, soft_check |-> FALSE,
             apply_default_tagset |-> FALSE, counter_length |-> 3,
             has_counter |-> FALSE, field_tags |-> <<"Subject">>]

\* an optional index: None is <<>>, the index i is <<i>>
None == <<>>
Some(i) == <<i>>
Val(o) == o[1]

\* MetadataSource.__init__: no metadata, no date, not loaded
\* (the metadata are kept in parts: the date fields; subject, the field of
\* the tags as the sequence of the parts ", " separates; rating and
\* orientation, the fields Rating and Orientation; None when the dict has no
\* such key)
NoSource == [metadata |-> <<>>, subject |-> None, date |-> None,
             is_loaded |-> "False", rating |-> None, orientation |-> None]

\* MediaFile.__init__ on dir/name without sidecars
NewMediaFile(dir, name) ==
    [name |-> name, dir |-> dir, sidecars |-> <<>>, std |-> None,
     src |-> None, is_prepared |-> FALSE, is_loaded |-> "False"]

NoMediaFile == NewMediaFile("work", <<>>)

\* MediaList._reset
NoMediaList == [mediafiles |-> <<>>, missing_parents |-> {}, no_access |-> {},
                duplicate_name |-> <<>>, current |-> 0]

\* a lookup that takes the standard name without testing the disk
FindParentUnchecked(d, dir, name) == [parent |-> PathStem(name), counter |-> None]

\* Sidecar.find_parent for the sidecar dir/name on the disk d: the parent's
\* name (<<>> when there is none) and the counter it sets on the way
FindParent(d, dir, name) ==
    LET proposed == PathStem(name)
    IN  IF OnDisk(d, dir, proposed)
        THEN [parent |-> proposed, counter |-> None]
        ELSE LET index_stem == RFind(PathStem(proposed), "_")
             IN  IF index_stem < 1 THEN [parent |-> <<>>, counter |-> None]
                 ELSE LET stem == Slice0(PathStem(proposed), index_stem)
                          counter == SubSeq(PathStem(proposed), index_stem + 2,
                                            Len(PathStem(proposed)))
                          second == stem \o PathSuffix(proposed)
                      IN  IF OnDisk(d, dir, second)
                          THEN [parent |-> second, counter |-> Some(counter)]
                          ELSE [parent |-> <<>>, counter |-> Some(counter)]

\* Sidecar.__init__
NewSidecar(d, dir, name) ==
    [name |-> name, dir |-> dir, counter |-> FindParent(d, dir, name).counter]

\* MediaFile.add_sidecars with one sidecar
AddSidecar(m, scar) ==
    [m EXCEPT !.sidecars = Append(@, scar),
              !.std = IF scar.name = m.name \o Xmp THEN Some(Len(m.sidecars))
                      ELSE @]

\* MediaFile.has_standard_sidecar
HasStandardSidecar(m) == m.std # None

\* MediaFile.is_named_correctly: the names the detection pattern, filled in
\* with the file's date, matches in full
WellNamed == {<<"n">> \o Jpg, <<"n", "_", "0", "0", "1">> \o Jpg}
IsNamedCorrectly(m) == m.name \in WellNamed

\* MetadataSource.move of the file at path on the disk d; target.dir = ""
\* is a bare name, target.name = <<>> an existing directory; the bare name
\* '' is Path('.'), which joined to the parent is the parent directory itself
MSMove(d, path, target) ==
    LET to == IF target.dir = "" THEN [dir |-> path.dir, name |-> target.name]
              ELSE IF target.name = <<>>
              THEN [dir |-> target.dir, name |-> path.name]
              ELSE target
    IN  IF to \in d \/ to.name = <<>>
        THEN [fs |-> d, path |-> path, err |-> "FileExistsError"]
        ELSE IF path \notin d
        THEN [fs |-> d, path |-> path, err |-> "FileNotFoundError"]
        ELSE [fs |-> (d \ {path}) \cup {to}, path |-> to, err |-> "none"]

\* MetadataSource.move(target), target None or a Path / string
Move(d, path, target) ==
    IF target = None THEN [fs |-> d, path |-> path, err |-> "ValueError"]
    ELSE MSMove(d, path, Val(target))

\* rename, "name.find('\\') > -1 or name.find('/') > -1"
HasSeparator(name) == \E i \in 1..Len(name) : name[i] \in {"/", "\\"}

\* MetadataSource.rename(name), name None or a string
Rename(d, path, name) ==
    IF name = None THEN [fs |-> d, path |-> path, err |-> "ValueError"]
    ELSE IF HasSeparator(Val(name))
    THEN [fs |-> d, path |-> path, err |-> "ValueError"]
    ELSE MSMove(d, path, [dir |-> "", name |-> Val(name)])

PathOf(x) == [dir |-> x.dir, name |-> x.name]

-----------------------------------------------------------------------------
(* MediaFile: the prepare pipeline *)

\* A run of MediaFile code is a record st: the MediaFile m, the disk fs, the
\* commands sent to the tool so far, cmds, and the exception raised, err.
Raise(st, e) == [st EXCEPT !.err = e]
Sent(st, command) == [st EXCEPT !.cmds = Append(@, command)]

\* MediaFile._unify_dates
UnifyDates(st) == Sent(st, "unify_dates")

\* MediaFile._create_standard_sidecar; written: the tool wrote the file
CreateStandardSidecar(st, written) ==
    LET m == st.m
        sidecar_path == [dir |-> m.dir, name |-> m.name \o Xmp]
        s1 == Sent(st, "create_sidecar")
        d1 == IF written THEN s1.fs \cup {sidecar_path} ELSE s1.fs
        s2 == [s1 EXCEPT !.fs = d1]
    IN  IF sidecar_path \notin d1 THEN Raise(s2, "FileNotFoundError")
        ELSE IF ~HasStandardSidecar(m)
        THEN [s2 EXCEPT !.m = AddSidecar(m, NewSidecar(d1, m.dir, sidecar_path.name))]
        ELSE s2

\* MediaFile._prune
Prune(st) == Sent(st, "prune")

\* MediaFile._sidecar_to_mediafile: after the lookup of the sidecar the
\* method reads cfg, a name it never binds
SidecarToMediafile(st, index) ==
    IF index = None THEN Raise(st, "TypeError")
    ELSE IF Val(index) >= Len(st.m.sidecars) THEN Raise(st, "FileNotFoundError")
    ELSE Raise(st, "NameError")

\* MediaFile._remove_sidecar
RemoveSidecar(st, index) ==
    IF index = None THEN Raise(st, "TypeError")
    ELSE IF Val(index) >= Len(st.m.sidecars) THEN Raise(st, "FileNotFoundError")
    ELSE LET scar == st.m.sidecars[Val(index) + 1]
         IN  IF PathOf(scar) \notin st.fs THEN Raise(st, "FileNotFoundError")
             ELSE [st EXCEPT !.fs = @ \ {PathOf(scar)},
                             !.m.sidecars = SubSeq(@, 1, Val(index)) \o
                                            SubSeq(@, Val(index) + 2, Len(@))]

\* Sidecar.rename(parent_path) of the sidecar scar on the disk d
SidecarRename(d, scar, parent_path) ==
    IF parent_path \notin d
    THEN [fs |-> d, path |-> PathOf(scar), err |-> "FileNotFoundError"]
    ELSE LET proposed ==
                 IF scar.counter = None THEN parent_path.name \o Xmp
                 ELSE CountNameUp(d, PathStem(parent_path.name),
                                  PathSuffix(parent_path.name) \o Xmp,
                                  cfg.counter_length, 1)
         IN  MSMove(d, PathOf(scar), [dir |-> "", name |-> proposed])

\* one step of the loop below: the outcome r of Sidecar.rename is stored in
\* the sidecar at index; an exception leaves the loop
RECURSIVE RenameSidecars(_, _, _)
RenamedSidecar(st, index, parent_path, r) ==
    IF r.err # "none" THEN Raise(st, r.err)
    ELSE RenameSidecars([st EXCEPT !.fs = r.fs,
                                   !.m.sidecars[index].name = r.path.name,
                                   !.m.sidecars[index].dir = r.path.dir],
                        index + 1, parent_path)

\* for index in range(len(self.__sidecars)): self.__sidecars[index].rename(..)
RenameSidecars(st, index, parent_path) ==
    IF index > Len(st.m.sidecars) THEN st
    ELSE RenamedSidecar(st, index, parent_path,
                        SidecarRename(st.fs, st.m.sidecars[index], parent_path))

\* MediaFile.rename, "super().move(path / name)": the outcome mv of the move
\* is stored in the MediaFile
MovedTo(st, mv) ==
    [st EXCEPT !.fs = mv.fs, !.m.name = mv.path.name, !.err = mv.err]

\* a rename that keeps a name taken in both directories
CountUpDuplicateSkipped(st) == st
\* MediaFile.rename, "if Path(working_dir, name.name).exists() and ...": a
\* name that is now in the working directory and in deleted is counted up
CountUpDuplicate(st) ==
    LET name == st.m.name
        stem == IF cfg.has_counter
                THEN SubSeq(PathStem(name), 1,
                            Len(PathStem(name)) - (cfg.counter_length + 1))
                ELSE PathStem(name)
    IN  IF OnDisk(st.fs, "work", name) /\ OnDisk(st.fs, "deleted", name)
        THEN MovedTo(st, MSMove(st.fs, PathOf(st.m),
                                [dir |-> st.m.dir,
                                 name |-> CountNameUp(st.fs, stem, PathSuffix(name),
                                                      cfg.counter_length, 1)]))
        ELSE st

\* MediaFile.rename, the closing loop; path / name is the MediaFile's own
\* path at that point
RenameFamily(st) ==
    IF st.err # "none" THEN st ELSE RenameSidecars(st, 1, PathOf(st.m))

\* MediaFile.rename; new_name: the name the tool gave the file (<<>> when it
\* renamed nothing)
MFRename(st, new_name) ==
    IF \/ new_name = <<>>
       \/ PathOf(st.m) \notin st.fs
       \/ [dir |-> st.m.dir, name |-> new_name] \in st.fs
    THEN Raise(Sent(st, "rename"), "FileNotFoundError")
    ELSE RenameFamily(CountUpDuplicate(
             [Sent(st, "rename") EXCEPT
                 !.fs = (@ \ {PathOf(st.m)}) \cup {[dir |-> st.m.dir, name |-> new_name]},
                 !.m.name = new_name]))

\* MediaFile.unload followed by MediaFile.load: the file and each sidecar
\* are read again, the source cursor is reset
Reload(st) ==
    [st EXCEPT !.cmds = @ \o <<"load">> \o [i \in 1..Len(st.m.sidecars) |-> "load"],
               !.m.is_loaded = "True",
               !.m.src = None]

\* the steps of the pipeline (mediafile.py, "if not self.__is_prepared:");
\* an exception of an earlier step skips the later ones
StepSidecar(st, c) ==
    IF st.err = "none" /\ (cfg.use_sidecar \/ cfg.prune_metadata)
    THEN CreateStandardSidecar(st, c.written) ELSE st

StepPrune(st) ==
    IF st.err = "none" /\ cfg.prune_metadata THEN Prune(st) ELSE st

StepTransfer(st) ==
    IF st.err = "none" /\ ~cfg.use_sidecar /\ cfg.prune_metadata
    THEN SidecarToMediafile(st, st.m.std) ELSE st

StepRemove(st) ==
    IF st.err = "none" /\ ~cfg.use_sidecar /\ cfg.prune_metadata
    THEN RemoveSidecar(st, st.m.std) ELSE st

StepRename(st, c) ==
    IF st.err = "none" /\ cfg.rename_files /\ ~IsNamedCorrectly(st.m)
    THEN MFRename(st, c.new_name) ELSE st

StepReload(st) == IF st.err = "none" THEN Reload(st) ELSE st

\* each step is handed the state the step before it left
Pipeline(st, c) ==
    CHOOSE s7 \in {StepReload(s6) : s6 \in
             {StepRename(s5, c) : s5 \in
             {StepRemove(s4) : s4 \in
             {StepTransfer(s3) : s3 \in
             {StepPrune(s2) : s2 \in
             {StepSidecar(s1, c) : s1 \in {UnifyDates(st)}}}}}}} : TRUE

\* the soft check of prepare
SoftCheckPasses(m) ==
    /\ cfg.soft_check
    /\ (~cfg.rename_files \/ IsNamedCorrectly(m))
    /\ (~cfg.use_sidecar \/ HasStandardSidecar(m))

\* prepare, "if soft_check:"
SoftCheck(st) ==
    IF SoftCheckPasses(st.m) THEN [st EXCEPT !.m.is_prepared = TRUE] ELSE st

\* prepare, "if not self.__is_prepared:"
RunPipeline(st, c) == IF ~st.m.is_prepared THEN Pipeline(st, c) ELSE st

\* prepare, "if apply_default_tagset and not tagsets is None:" reads tagset,
\* a name the method never binds; otherwise the file is marked prepared
ApplyDefaultTagset(st, c) ==
    IF st.err # "none" THEN st
    ELSE IF cfg.apply_default_tagset /\ c.tagsets.given
    THEN Raise(st, "NameError")
    ELSE [st EXCEPT !.m.is_prepared = TRUE]

\* MediaFile.prepare(tagsets); c: the call, with the tool's behaviour
Prepare(st, c) ==
    IF st.m.is_loaded # "True" THEN st
    ELSE IF st.m.is_prepared THEN st
    ELSE ApplyDefaultTagset(RunPipeline(SoftCheck(st), c), c)

-----------------------------------------------------------------------------
(* MetadataSource.toggle_tags and the callers of the tag engine *)

NoCall == [op |-> "none", input |-> {}, tagsets |-> NoTagsets,
           force_all |-> FALSE, force |-> "toggle", updated |-> 0]
NoRes == [err |-> "none", add |-> {}, remove |-> {}, sent |-> FALSE]

\* MetadataSource.toggle_tags on a source holding S: the list afterwards and
\* the outcome; c.updated is the tool's count of updated files
MSToggleTags(S, c) ==
    IF ~exists
    THEN [tags |-> S, err |-> "FileNotFoundError", add |-> {}, remove |-> {},
          sent |-> FALSE]
    ELSE IF c.input = {}
    THEN [tags |-> S, err |-> "none", add |-> {}, remove |-> {}, sent |-> FALSE]
    ELSE LET r == ToggleTags(S, c.input, c.tagsets, FALSE, c.force)
         IN  IF r.add = {} /\ r.remove = {}
             THEN [tags |-> r.tags, err |-> "none", add |-> {}, remove |-> {},
                   sent |-> FALSE]
             ELSE IF c.updated # 1
             THEN [tags |-> r.tags, err |-> "ChildProcessError", add |-> r.add,
                   remove |-> r.remove, sent |-> TRUE]
             ELSE [tags |-> r.tags, err |-> "none", add |-> r.add,
                   remove |-> r.remove, sent |-> TRUE]

\* one call of the tag engine, c, on a source holding S
Perform(S, c) ==
    IF c.op = "ms_toggle_tags" THEN MSToggleTags(S, c)
    ELSE LET r == ToggleTags(S, c.input, c.tagsets, c.force_all, c.force)
         IN  [tags |-> r.tags, err |-> "none", add |-> r.add,
              remove |-> r.remove, sent |-> FALSE]

Record(c, r) ==
    /\ call' = c
    /\ res' = [err |-> r.err, add |-> r.add, remove |-> r.remove, sent |-> r.sent]
    /\ tags' = r.tags

\* TagList.toggle_tags called directly
TLToggle ==
    /\ pc = "idle"
    /\ \E input \in Batches, ts \in {NoTagsets, DemoTagsets},
          fa \in BOOLEAN, f \in {"toggle", "in", "out"} :
          LET c == [op |-> "toggle_tags", input |-> input, tagsets |-> ts,
                    force_all |-> fa, force |-> f, updated |-> 0]
          IN  /\ fa => f = "toggle"
              /\ Record(c, Perform(tags, c))
    /\ before' = tags
    /\ pc' = "done1"
    /\ UNCHANGED <<exists, before2, mediaVars>>

\* MetadataSource.toggle_tags (Sortingshop.toggle_tags, MediaFile.prepare)
MSToggle ==
    /\ pc = "idle"
    /\ \E input \in Batches, ts \in {NoTagsets, DemoTagsets},
          f \in {"toggle", "in", "out"}, updated \in {0, 1} :
          LET c == [op |-> "ms_toggle_tags", input |-> input, tagsets |-> ts,
                    force_all |-> FALSE, force |-> f, updated |-> updated]
          IN  Record(c, Perform(tags, c))
    /\ before' = tags
    /\ pc' = "done1"
    /\ UNCHANGED <<exists, before2, mediaVars>>

\* the same request once more, at once (the "." command: toggle the last
\* used tags)
Repeat ==
    /\ pc = "done1"
    /\ \E updated \in {0, 1} :
          LET c == [call EXCEPT !.updated = updated]
          IN  /\ call.op = "toggle_tags" => updated = 0
              /\ Record(c, Perform(tags, c))
    /\ before' = tags
    /\ before2' = before
    /\ pc' = "done2"
    /\ UNCHANGED <<exists, mediaVars>>

\* the caller takes the result and goes back to the event loop
Return ==
    /\ pc \in {"done1", "done2"}
    /\ pc' = "idle"
    /\ call' = NoCall
    /\ res' = NoRes
    /\ before' = {}
    /\ before2' = {}
    /\ UNCHANGED <<tags, exists, mediaVars>>

\* TagList.load_tags, as MetadataSource.load calls it on the tag field
TLLoad ==
    /\ pc = "idle"
    /\ \E ts \in SUBSET Universe, intersect \in BOOLEAN :
          tags' = LoadTags(tags, ts, intersect)
    /\ UNCHANGED <<pc, exists, call, res, before, before2, mediaVars>>

\* the user removes the file behind the program's back
FileVanishes ==
    /\ pc = "idle"
    /\ exists
    /\ exists' = FALSE
    /\ UNCHANGED <<pc, tags, call, res, before, before2, mediaVars>>

InitTags ==
    /\ pc = "idle"
    /\ tags = {}
    /\ exists = TRUE
    /\ call = NoCall
    /\ res = NoRes
    /\ before = {}
    /\ before2 = {}
    /\ cfg = NoConfig
    /\ fs = {}
    /\ locked = {}
    /\ tsets = EmptyTagsets
    /\ ms = NoSource
    /\ mf = NoMediaFile
    /\ ml = NoMediaList

NextTags == TLToggle \/ MSToggle \/ Repeat \/ Return \/ TLLoad \/ FileVanishes

SpecTags == InitTags /\ [][NextTags]_vars

-----------------------------------------------------------------------------
(* Claims about the tag engine, checked under SpecTags *)

Returned == pc \in {"done1", "done2"}

\* the latest call was TagList.toggle_tags on the one literal tag t
SingleTag(t) ==
    /\ Returned
    /\ call.op = "toggle_tags"
    /\ ~call.force_all
    /\ ~call.tagsets.given
    /\ call.input = {t}

\* C1: when the tool does not report exactly one updated file,
\* MetadataSource.toggle_tags fails with ChildProcessError and the tag list
\* held in memory is the one held before the call.
C1_FailedWriteKeepsTags ==
    (Returned /\ call.op = "ms_toggle_tags" /\ res.sent /\ call.updated # 1)
        => (res.err = "ChildProcessError" /\ tags = before)

\* C2: toggling one tag twice in a row with force="toggle" gives back the
\* tag set the first call started from.
C2_ToggleTwiceRestores ==
    \A t \in Universe :
        (pc = "done2" /\ SingleTag(t) /\ call.force = "toggle") => tags = before2

\* the tags on the way from t to a: t and the ancestors of t below a
Closer(a, t) == {t} \cup {x \in Ancestors(t) : IsDescendant(x, a)}

\* the latest call was a removal of the one tag t
Removal(t) ==
    /\ SingleTag(t)
    /\ (call.force = "out" \/ (call.force = "toggle" /\ t \in before))

\* C3: a removal of t takes t out only if no present tag starts with
\* t + "|"; then the ancestors go closest-first, each only if every tag
\* between it and t went and no descendant of it remains; nothing else
\* changes. {a, a|b, a|b|c, a|b|d} minus a|b|c keeps a|b and a, and minus
\* a|b|d afterwards loses a|b and a as well.
C3_RemovalPrunesUnusedAncestors ==
    \A t \in Universe :
        Removal(t) =>
            /\ res.add = {}
            /\ res.remove \subseteq before
            /\ tags = before \ res.remove
            /\ res.remove \subseteq {t} \cup Ancestors(t)
            /\ t \in res.remove
                  <=> (t \in before /\ ~\E u \in before : IsDescendant(u, t))
            /\ \A a \in Ancestors(t) :
                  a \in res.remove
                      <=> /\ a \in before
                          /\ Closer(a, t) \subseteq res.remove
                          /\ ~\E u \in tags : IsDescendant(u, a)
            /\ (before = {tA, tAB, tABC, tABD} /\ t = tABC)
                  => tags = {tA, tAB, tABD}
            /\ (before = {tA, tAB, tABD} /\ t = tABD) => tags = {}

C3_Witness ==
    /\ Removal(tABD)
    /\ before = {tA, tAB, tABD}
    /\ res.remove = {tA, tAB, tABD}

\* C4: a toggle call of any kind (any batch, any force mode, force_all) on
\* a tag set in which every tag has its ancestors leaves such a tag set.
C4_AncestorClosurePreserved ==
    (Returned /\ AncestorClosed(before)) => AncestorClosed(tags)

C4_Witness ==
    /\ Returned
    /\ AncestorClosed(before)
    /\ tABC \in before
    /\ res.remove # {}
    /\ res.add # {}

\* C5: with force_all, the batch is removed if every tag of the expanded
\* input is present, and added otherwise (also when the list is empty).
C5_ForceAllBranch ==
    (pc = "done1" /\ call.op = "toggle_tags" /\ call.force_all) =>
        LET input == ExpandTagsets(call.input, call.tagsets)
            want  == IF input \subseteq before
                     THEN RemoveAll(before, SortedSeq(input))
                     ELSE AddAll(before, SortedSeq(input))
        IN  /\ tags = want.tags
            /\ res.add = want.add
            /\ res.remove = want.remove

\* C6: after force="in" on the tag t, t and every ancestor of t are
\* present, and the returned add set is those of them that were absent.
C6_ForceInAddsAllAncestors ==
    \A t \in Universe :
        (pc = "done1" /\ SingleTag(t) /\ call.force = "in") =>
            /\ ({t} \cup Ancestors(t)) \subseteq tags
            /\ res.add = ({t} \cup Ancestors(t)) \ before

-----------------------------------------------------------------------------
(* One MediaFile: load, prepare, unload *)

nA   == <<"a">> \o Jpg
nN   == <<"n">> \o Jpg
Dirs == {"work", "deleted"}
Other(dir) == IF dir = "work" THEN "deleted" ELSE "work"

Configs ==
    [use_sidecar : BOOLEAN, rename_files : BOOLEAN, prune_metadata : BOOLEAN,
     soft_check : BOOLEAN, apply_default_tagset : BOOLEAN,
     counter_length : {3}, has_counter : {FALSE},
     field_tags : {<<"Subject">>}]

\* the counter sidecar of a media file name: stem_1.jpg.xmp
CounterSidecarOf(name) == PathStem(name) \o <<"_", "1">> \o PathSuffix(name) \o Xmp

\* the MediaFile a scan builds for dir/name with the sidecars scars on disk
RECURSIVE Attach(_, _, _)
Attach(m, d, scars) ==
    IF scars = <<>> THEN m
    ELSE Attach(AddSidecar(m, NewSidecar(d, m.dir, Head(scars))), d, Tail(scars))

Snapshot == [m |-> mf, fs |-> fs, res |-> res, call |-> call]

InitPrepare ==
    /\ pc = "idle"
    /\ tags = {}
    /\ exists = TRUE
    /\ call = NoCall
    /\ res = NoRes
    /\ before = {}
    /\ before2 = {}
    /\ ml = NoMediaList
    /\ locked = {}
    /\ tsets = EmptyTagsets
    /\ ms = NoSource
    /\ cfg \in Configs
    /\ \E name \in {nA, nN}, dir \in Dirs, std \in BOOLEAN, counted \in BOOLEAN,
          twin \in BOOLEAN :
          LET scars == (IF counted THEN <<CounterSidecarOf(name)>> ELSE <<>>)
                       \o (IF std THEN <<name \o Xmp>> ELSE <<>>)
              d == {[dir |-> dir, name |-> name]}
                   \cup {[dir |-> dir, name |-> scars[i]] : i \in 1..Len(scars)}
                   \cup (IF twin THEN {[dir |-> Other(dir), name |-> nN]} ELSE {})
          IN  /\ twin => name # nN
              /\ fs = d
              /\ mf = Attach(NewMediaFile(dir, name), d, scars)

\* MediaFile.load, as MediaList.get_mediafile calls it on the new current item
MFLoad ==
    /\ pc = "idle"
    /\ mf.is_loaded # "True"
    /\ mf' = [mf EXCEPT !.is_loaded = "True", !.src = None]
    /\ UNCHANGED <<pc, tagVars, call, res, before, before2, cfg, fs, locked, tsets, ms, ml>>

\* MediaFile.unload, as MediaList.get_mediafile calls it on the old current item
MFUnload ==
    /\ pc = "idle"
    /\ mf.is_loaded = "True"
    /\ mf' = [mf EXCEPT !.is_loaded = "None"]
    /\ UNCHANGED <<pc, tagVars, call, res, before, before2, cfg, fs, locked, tsets, ms, ml>>

RunPrepare(c) ==
    LET st == Prepare([m |-> mf, fs |-> fs, cmds |-> <<>>, err |-> "none"], c)
    IN  /\ mf' = st.m
        /\ fs' = st.fs
        /\ res' = [err |-> st.err, cmds |-> st.cmds]
        /\ call' = c

PrepareCalls ==
    [op : {"prepare"}, tagsets : {NoTagsets, DemoTagsets, DefaultTagsets},
     written : BOOLEAN,
     new_name : {<<>>, nN}]

\* MediaFile.prepare (Sortingshop.load_mediafile, Sortingshop.prepare_all)
MFPrepare ==
    /\ pc = "idle"
    /\ \E c \in PrepareCalls : RunPrepare(c)
    /\ before' = Snapshot
    /\ pc' = "done1"
    /\ UNCHANGED <<tagVars, before2, cfg, locked, tsets, ms, ml>>

\* prepare once more on the same MediaFile with the same argument
MFPrepareAgain ==
    /\ pc = "done1"
    /\ call.op = "prepare"
    /\ \E c \in PrepareCalls : c.tagsets = call.tagsets /\ RunPrepare(c)
    /\ before' = Snapshot
    /\ before2' = before
    /\ pc' = "done2"
    /\ UNCHANGED <<tagVars, cfg, locked, tsets, ms, ml>>

NextPrepare == MFLoad \/ MFUnload \/ MFPrepare \/ MFPrepareAgain \/ Return

SpecPrepare == InitPrepare /\ [][NextPrepare]_vars

-----------------------------------------------------------------------------
(* Claims about prepare, checked under SpecPrepare *)

\* the call that has just returned was made on a loaded MediaFile that was
\* not marked prepared
FirstPrepare ==
    /\ pc = "done1"
    /\ call.op = "prepare"
    /\ before.m.is_loaded = "True"
    /\ ~before.m.is_prepared

\* C7: of two prepare calls in a row on a loaded MediaFile, the first of
\* which met no failure of the tool or the disk, the first marks the file
\* prepared and the second sends no command and changes nothing.
C7_PrepareTwiceRunsOnce ==
    (/\ pc = "done2"
     /\ call.op = "prepare"
     /\ before2.m.is_loaded = "True"
     /\ before.res.err \notin {"FileNotFoundError", "FileExistsError"})
        => /\ before.m.is_prepared
           /\ res.cmds = <<>>
           /\ res.err = "none"
           /\ mf = before.m
           /\ fs = before.fs

\* C8: when the soft check passes, prepare marks the file prepared and
\* returns without having sent any command to the tool.
C8_SoftCheckSendsNothing ==
    (FirstPrepare /\ SoftCheckPasses(before.m))
        => /\ mf.is_prepared
           /\ res.err = "none"
           /\ res.cmds = <<>>

-----------------------------------------------------------------------------
(* MediaList: the scan of the working directory and its deleted subdirectory *)

\* of file_types, the suffix the names on the modelled disk have
FileTypes == {Jpg}

\* what _parse_directory has built so far: files, implicit_parents, the
\* lists of the MediaList it fills on the way, and the exception raised
NoFiles == [files |-> <<>>, implicit_parents |-> {}, missing_parents |-> {},
            no_access |-> {}, duplicate_name |-> <<>>, err |-> "none"]

\* a check that takes a name at another path for the same file
CheckMediafileNameOnly(path, files) ==
    IF path.name \notin DOMAIN files THEN "KeyError" ELSE "none"

\* MediaList._check_mediafile_name_exists
CheckMediafileNameExists(path, files) ==
    IF path.name \notin DOMAIN files THEN "KeyError"
    ELSE IF PathOf(files[path.name]) # path THEN "FileExistsError"
    ELSE "none"

DuplicateName(acc, name) ==
    [acc EXCEPT !.duplicate_name = name, !.err = "FileExistsError"]

\* _parse_directory, "if suffix == '.xmp':" with the parent the sidecar found
AttachToParent(acc, scar, parent, check) ==
    IF check = "FileExistsError" THEN DuplicateName(acc, parent.name)
    ELSE IF check = "KeyError"
    THEN [acc EXCEPT
             !.files = (parent.name :>
                           AddSidecar(NewMediaFile(parent.dir, parent.name), scar)) @@ @,
             !.implicit_parents = @ \cup {parent.name}]
    ELSE [acc EXCEPT !.files[parent.name] = AddSidecar(@, scar)]

\* _parse_directory, "if suffix == '.xmp':"
ParseSidecar(acc, d, path) ==
    LET parent == [dir |-> path.dir, name |-> FindParent(d, path.dir, path.name).parent]
    IN  IF parent.name = <<>>
        THEN [acc EXCEPT !.missing_parents = @ \cup {path}]
        ELSE AttachToParent(acc, NewSidecar(d, path.dir, path.name), parent,
                            CheckMediafileNameExists(parent, acc.files))

\* a scan that does not remember the parents it created for sidecars
ParseMediafileAgain(acc, path) ==
    IF CheckMediafileNameExists(path, acc.files) = "FileExistsError"
    THEN DuplicateName(acc, path.name)
    ELSE [acc EXCEPT !.files = (path.name :> NewMediaFile(path.dir, path.name)) @@ @]
\* _parse_directory, "elif suffix in file_types:"
ParseMediafile(acc, path) ==
    IF path.name \in acc.implicit_parents
    THEN [acc EXCEPT !.implicit_parents = @ \ {path.name}]
    ELSE IF CheckMediafileNameExists(path, acc.files) = "FileExistsError"
    THEN DuplicateName(acc, path.name)
    ELSE [acc EXCEPT !.files = (path.name :> NewMediaFile(path.dir, path.name)) @@ @]

\* _parse_directory, the body of "for entry in entries:"; lk: the files
\* _check_file turns down
ParseEntry(acc, d, lk, path) ==
    IF Head(path.name) = "." THEN acc
    ELSE IF path \in lk /\ PathSuffix(path.name) \in FileTypes \cup {Xmp}
    THEN [acc EXCEPT !.no_access = @ \cup {path}]
    ELSE IF PathSuffix(path.name) = Xmp THEN ParseSidecar(acc, d, path)
    ELSE IF PathSuffix(path.name) \in FileTypes THEN ParseMediafile(acc, path)
    ELSE acc

\* _parse_directory, the loop over os.scandir, which lists the names of the
\* directory in the order entries; an exception leaves the loop
RECURSIVE ScanEntries(_, _, _, _, _)
ScanEntries(acc, d, lk, dir, entries) ==
    IF entries = <<>> \/ acc.err # "none" THEN acc
    ELSE ScanEntries(ParseEntry(acc, d, lk, [dir |-> dir, name |-> Head(entries)]),
                     d, lk, dir, Tail(entries))

\* MediaList._parse_directory
ParseDirectory(acc, d, lk, dir, entries) ==
    IF acc.err # "none" THEN acc
    ELSE ScanEntries([acc EXCEPT !.implicit_parents = {}], d, lk, dir, entries)

\* the sort key of MediaList.parse
SortKeyWithDirectory(m) == <<IF m.dir = "deleted" THEN "d" ELSE ".">> \o m.name
SortKey(m) == m.name

\* sorted(self.__mediafiles, key=...) of the MediaFiles S, whose keys differ
RECURSIVE SortMediafiles(_)
SortMediafiles(S) ==
    IF S = {} THEN <<>>
    ELSE LET m == CHOOSE x \in S :
                      \A y \in S \ {x} : StrLess(SortKey(x), SortKey(y))
         IN  <<m>> \o SortMediafiles(S \ {m})

\* MediaList.parse, from "self.__mediafiles = list(files.values())" on; an
\* exception before it leaves the list as _reset made it
ParsedList(acc) ==
    [ml |-> [mediafiles |-> IF acc.err = "none"
                            THEN SortMediafiles({acc.files[n] : n \in DOMAIN acc.files})
                            ELSE <<>>,
             missing_parents |-> acc.missing_parents,
             no_access |-> acc.no_access,
             duplicate_name |-> acc.duplicate_name,
             current |-> 0],
     err |-> acc.err]

\* MediaList.parse of an existing working directory; work and deleted: the
\* orders in which os.scandir lists the two directories
MLParse(d, lk, work, deleted) ==
    ParsedList(ParseDirectory(ParseDirectory(NoFiles, d, lk, "work", work),
                              d, lk, "deleted", deleted))

-----------------------------------------------------------------------------
(* MediaFile.move and toggle_deleted *)

\* MediaFile.move, "super().move(target)": the outcome mv of the move is
\* stored in the MediaFile
MovedMediaFile(st, mv) ==
    [st EXCEPT !.fs = mv.fs, !.m.dir = mv.path.dir, !.m.name = mv.path.name,
               !.err = mv.err]

\* MediaFile.move, "for scar in self.__sidecars: scar.move(target)"
RECURSIVE MoveSidecars(_, _, _)
MovedSidecar(st, index, target, mv) ==
    IF mv.err # "none" THEN Raise(st, mv.err)
    ELSE MoveSidecars([st EXCEPT !.fs = mv.fs,
                                 !.m.sidecars[index].dir = mv.path.dir,
                                 !.m.sidecars[index].name = mv.path.name],
                      index + 1, target)

MoveSidecars(st, index, target) ==
    IF index > Len(st.m.sidecars) THEN st
    ELSE MovedSidecar(st, index, target,
                      MSMove(st.fs, PathOf(st.m.sidecars[index]), target))

MoveFamily(st, target) ==
    IF st.err # "none" THEN st ELSE MoveSidecars(st, 1, target)

\* MediaFile.move(target)
MFMove(st, target) ==
    MoveFamily(MovedMediaFile(st, MSMove(st.fs, PathOf(st.m), target)), target)

\* MetadataSource.toggle_deleted, which MediaFile inherits: the target is
\* the working directory for a deleted file and deleted (made if missing)
\* for any other; self.move is MediaFile.move
ToggleDeletedOf(st) == MFMove(st, [dir |-> Other(st.m.dir), name |-> <<>>])

-----------------------------------------------------------------------------
(* One MediaList over a small disk: scan, delete and undelete *)

ListNames == {nA, <<"b">> \o Jpg, nA \o Xmp, CounterSidecarOf(nA)}
Disk == [dir : {"work"}, name : ListNames]
        \cup [dir : {"deleted"}, name : ListNames \ {CounterSidecarOf(nA)}]

NamesIn(d, dir) == {p.name : p \in {q \in d : q.dir = dir}}

\* the orders in which os.scandir may list the names S
Orders(S) ==
    {o \in [1..Cardinality(S) -> S] : \A i, j \in DOMAIN o : i # j => o[i] # o[j]}

InitList ==
    /\ pc = "idle"
    /\ tags = {}
    /\ exists = TRUE
    /\ call = NoCall
    /\ res = NoRes
    /\ before = {}
    /\ before2 = {}
    /\ cfg = NoConfig
    /\ mf = NoMediaFile
    /\ ml = NoMediaList
    /\ fs \in SUBSET Disk
    /\ locked \in SUBSET fs
    /\ tsets = EmptyTagsets
    /\ ms = NoSource

\* MediaList.parse (Sortingshop.set_working_dir)
Parse ==
    /\ pc = "idle"
    /\ \E work \in Orders(NamesIn(fs, "work")),
          deleted \in Orders(NamesIn(fs, "deleted")) :
          \E r \in {MLParse(fs, locked, work, deleted)} :
             /\ ml' = r.ml
             /\ res' = [err |-> r.err]
             /\ call' = [op |-> "parse", index |-> 0, work |-> work,
                         deleted |-> deleted]
    /\ pc' = "done1"
    /\ UNCHANGED <<tagVars, before, before2, cfg, fs, locked, tsets, ms, mf>>

\* MediaFile.toggle_deleted of the MediaFile at index of the list
\* (Sortingshop.toggle_deleted calls it on the current MediaFile)
ToggleDeleted ==
    /\ pc = "idle"
    /\ \E index \in 1..Len(ml.mediafiles) :
          LET st == ToggleDeletedOf([m |-> ml.mediafiles[index], fs |-> fs,
                                     cmds |-> <<>>, err |-> "none"])
          IN  /\ ml' = [ml EXCEPT !.mediafiles[index] = st.m]
              /\ fs' = st.fs
              /\ res' = [err |-> st.err]
              /\ call' = [op |-> "toggle_deleted", index |-> index]
    /\ before' = [ml |-> ml, fs |-> fs]
    /\ pc' = "done1"
    /\ UNCHANGED <<tagVars, before2, cfg, locked, tsets, ms, mf>>

NextList == Parse \/ ToggleDeleted \/ Return

SpecList == InitList /\ [][NextList]_vars

-----------------------------------------------------------------------------
(* Claims about the list, checked under SpecList *)

Toggled == pc = "done1" /\ call.op = "toggle_deleted"

Names(list) == [i \in 1..Len(list.mediafiles) |-> list.mediafiles[i].name]

\* C9: whenever toggle_deleted of a MediaFile has raised, the media file is
\* still on disk at the path it had before the call: the sidecars are moved
\* before the media file.
C9_SidecarsMoveFirst ==
    (Toggled /\ res.err # "none")
        => /\ PathOf(ml.mediafiles[call.index]) = PathOf(before.ml.mediafiles[call.index])
           /\ PathOf(before.ml.mediafiles[call.index]) \in before.fs
                 => PathOf(before.ml.mediafiles[call.index]) \in fs

\* C10: the items of the MediaList are always in strictly ascending order of
\* their names, wherever the files lie, and toggle_deleted leaves every
\* item's index and every other item alone; when it succeeds, it changes
\* the directory of the toggled file.
C10_OrderByNameOnly ==
    /\ \A i, j \in 1..Len(ml.mediafiles) :
          i < j => StrLess(ml.mediafiles[i].name, ml.mediafiles[j].name)
    /\ Toggled =>
          /\ Names(ml) = Names(before.ml)
          /\ \A j \in 1..Len(ml.mediafiles) :
                j # call.index => ml.mediafiles[j] = before.ml.mediafiles[j]
          /\ res.err = "none" =>
                ml.mediafiles[call.index].dir = Other(before.ml.mediafiles[call.index].dir)

\* two files, the one with the greater name in the working directory and
\* the other one just moved into deleted
C10_Witness ==
    /\ Toggled
    /\ res.err = "none"
    /\ Len(ml.mediafiles) = 2
    /\ ml.mediafiles[1].dir = "deleted"
    /\ before.ml.mediafiles[1].dir = "work"
    /\ ml.mediafiles[2].dir = "work"

Parsed == pc = "done1" /\ call.op = "parse"

\* the names of media files that lie in the working directory and in deleted
InBoth == {n \in ListNames : /\ PathSuffix(n) \in FileTypes
                             /\ OnDisk(fs, "work", n)
                             /\ OnDisk(fs, "deleted", n)}

\* C11 as stated: a scan of a disk on which a media file name lies in both
\* directories raises FileExistsError and the duplicate name is such a name.
C11_DuplicateRaises ==
    (Parsed /\ InBoth # {})
        => res.err = "FileExistsError" /\ ml.duplicate_name \in InBoth

\* C11: a scan of a disk on which a media file name lies in both directories,
\* both files passing the read/write check, raises FileExistsError and the
\* duplicate name is a name that lies in both directories.
C11_AccessibleDuplicateRaises ==
    (Parsed /\ \E n \in InBoth : [dir |-> "work", name |-> n] \notin locked
                                 /\ [dir |-> "deleted", name |-> n] \notin locked)
        => res.err = "FileExistsError" /\ ml.duplicate_name \in InBoth

C11_Witness ==
    /\ Parsed
    /\ res.err = "FileExistsError"
    /\ \E n \in InBoth : /\ [dir |-> "work", name |-> n] \notin locked
                         /\ [dir |-> "deleted", name |-> n] \notin locked
                         /\ ml.duplicate_name = n

\* the paths the list stands for: its MediaFiles and their sidecars
Represented(list) ==
    {PathOf(list.mediafiles[i]) : i \in 1..Len(list.mediafiles)}
    \cup UNION {{PathOf(list.mediafiles[i].sidecars[k]) :
                    k \in 1..Len(list.mediafiles[i].sidecars)} :
                i \in 1..Len(list.mediafiles)}

\* C12: after a scan no path of no_access is an item of the list or a
\* sidecar attached to an item.
C12_NoAccessExcluded ==
    Parsed => ml.no_access \cap Represented(ml) = {}

\* the two names the conventions give for the parent of the sidecar name n:
\* n without ".xmp", and that name without "_COUNTER" (<<>> when its stem
\* has no "_" after the first character)
StandardParentOf(n) == PathStem(n)
CounterParentOf(n) ==
    IF RFind(PathStem(PathStem(n)), "_") < 1 THEN <<>>
    ELSE Slice0(PathStem(PathStem(n)), RFind(PathStem(PathStem(n)), "_"))
         \o PathSuffix(PathStem(n))

\* the .xmp files on disk without a parent in their own directory
Orphans ==
    {p \in fs : /\ PathSuffix(p.name) = Xmp
                /\ ~OnDisk(fs, p.dir, StandardParentOf(p.name))
                /\ ~OnDisk(fs, p.dir, CounterParentOf(p.name))}

\* C13 as stated: after a scan that returned, every orphan is in
\* missing_parents and not attached, and every item's file is on disk.
C13_OrphansReported ==
    (Parsed /\ res.err = "none")
        => /\ \A p \in Orphans : p \in ml.missing_parents /\ p \notin Represented(ml)
           /\ \A i \in 1..Len(ml.mediafiles) : PathOf(ml.mediafiles[i]) \in fs

\* C13: after a scan that returned, every orphan that passes the read/write
\* check is in missing_parents, no orphan is attached to an item, and every
\* item's file is on disk.
C13_AccessibleOrphansReported ==
    (Parsed /\ res.err = "none")
        => /\ \A p \in Orphans \ locked : p \in ml.missing_parents
           /\ \A p \in Orphans : p \notin Represented(ml)
           /\ \A i \in 1..Len(ml.mediafiles) : PathOf(ml.mediafiles[i]) \in fs

\* a counter sidecar without its parent, scanned next to a media file
C13_Witness ==
    /\ Parsed
    /\ res.err = "none"
    /\ [dir |-> "work", name |-> CounterSidecarOf(nA)] \in (Orphans \ locked)
    /\ [dir |-> "work", name |-> CounterSidecarOf(nA)] \in ml.missing_parents
    /\ Len(ml.mediafiles) > 0

-----------------------------------------------------------------------------
(* MediaFile.get_source: the cursor over the media file and its sidecars *)

\* get_source, "if self.__source_index is None:"
StartIndex(m) ==
    IF m.src = None THEN (IF cfg.use_sidecar THEN 0 ELSE -1) ELSE Val(m.src)

\* a "next" that stops at the last sidecar
NextIndexClamped(index, n) == IF index >= n - 1 THEN index ELSE index + 1
\* get_source, "if position == 'next':"
NextIndex(index, n) == IF index >= n - 1 THEN -1 ELSE index + 1

\* get_source, "elif position == 'previous':"
PreviousIndex(index, n) == IF index <= -1 THEN n - 1 ELSE index - 1

\* get_source, the loop over the sidecars' names: the last sidecar called
\* name, or index when there is none
RECURSIVE IndexOfName(_, _, _, _)
IndexOfName(scars, name, i, index) ==
    IF i > Len(scars) THEN index
    ELSE IndexOfName(scars, name, i + 1,
                     IF scars[i].name = name THEN i - 1 ELSE index)

\* get_source, the index position asks for; position.kind is "next",
\* "previous", "first", "last" or "name" (any other string, taken as a name)
RequestedIndex(m, position) ==
    CASE position.kind = "next" -> NextIndex(StartIndex(m), Len(m.sidecars))
      [] position.kind = "previous" -> PreviousIndex(StartIndex(m), Len(m.sidecars))
      [] position.kind = "first" -> IF cfg.use_sidecar THEN 0 ELSE -1
      [] position.kind = "last" -> Len(m.sidecars) - 1
      [] OTHER -> IF position.name = m.name THEN -1
                  ELSE IndexOfName(m.sidecars, position.name, 1, StartIndex(m))

\* get_source from "if index >= 0:" on; the del of a sidecar whose file is
\* gone names self.__sidecar, an attribute the object does not have
ResolveSource(st, index) ==
    IF index >= Len(st.m.sidecars) THEN Raise(st, "IndexError")
    ELSE IF index >= 0 /\ PathOf(st.m.sidecars[index + 1]) \notin st.fs
    THEN Raise(st, "AttributeError")
    ELSE IF index < 0 /\ PathOf(st.m) \notin st.fs THEN Raise(st, "IndexError")
    ELSE IF index >= 0 THEN Sent([st EXCEPT !.m.src = Some(index)], "load")
    ELSE [st EXCEPT !.m.src = Some(index)]

\* MediaFile.get_source(position)
GetSource(st, position) ==
    ResolveSource([st EXCEPT !.m.src = Some(StartIndex(st.m))],
                  RequestedIndex(st.m, position))

-----------------------------------------------------------------------------
(* One MediaFile and its sources: load, get_source, files removed by the user *)

InitSource ==
    /\ pc = "idle"
    /\ tags = {}
    /\ exists = TRUE
    /\ call = NoCall
    /\ res = NoRes
    /\ before = {}
    /\ before2 = {}
    /\ ml = NoMediaList
    /\ locked = {}
    /\ tsets = EmptyTagsets
    /\ ms = NoSource
    /\ cfg \in {NoConfig, [NoConfig EXCEPT !.use_sidecar = TRUE]}
    /\ \E dir \in Dirs, std \in BOOLEAN, counted \in BOOLEAN :
          LET scars == (IF counted THEN <<CounterSidecarOf(nA)>> ELSE <<>>)
                       \o (IF std THEN <<nA \o Xmp>> ELSE <<>>)
              d == {[dir |-> dir, name |-> nA]}
                   \cup {[dir |-> dir, name |-> scars[i]] : i \in 1..Len(scars)}
          IN  /\ fs = d
              /\ mf = Attach(NewMediaFile(dir, nA), d, scars)

\* what Sortingshop.load_source may ask of the current MediaFile
SourcePositions ==
    [kind : {"next", "previous", "first", "last"}, name : {<<>>}]
    \cup [kind : {"name"}, name : {<<>>, nA, nA \o Xmp, CounterSidecarOf(nA)}]

\* MediaFile.get_source (Sortingshop.load_source) on the loaded MediaFile
MFGetSource ==
    /\ pc = "idle"
    /\ mf.is_loaded = "True"
    /\ \E position \in SourcePositions :
          \E st \in {GetSource([m |-> mf, fs |-> fs, cmds |-> <<>>, err |-> "none"],
                               position)} :
             /\ mf' = st.m
             /\ res' = [err |-> st.err, cmds |-> st.cmds]
             /\ call' = [op |-> "get_source", position |-> position]
    /\ before' = [m |-> mf, fs |-> fs]
    /\ pc' = "done1"
    /\ UNCHANGED <<tagVars, before2, cfg, fs, locked, tsets, ms, ml>>

\* the user removes a file of the working directory or of deleted
FileRemoved ==
    /\ pc = "idle"
    /\ \E p \in fs : fs' = fs \ {p}
    /\ UNCHANGED <<pc, tagVars, call, res, before, before2, cfg, locked, tsets, ms, mf, ml>>

NextSource == MFLoad \/ MFUnload \/ MFGetSource \/ FileRemoved \/ Return

SpecSource == InitSource /\ [][NextSource]_vars

-----------------------------------------------------------------------------
(* Claims about get_source, checked under SpecSource *)

GotSource == pc = "done1" /\ call.op = "get_source"

\* the cursor of the MediaFile m, read as the code reads it after a load
Cursor(m) == IF m.src = None THEN (IF cfg.use_sidecar THEN 0 ELSE -1) ELSE Val(m.src)
InRing(m, i) == i \in -1..(Len(m.sidecars) - 1)

\* C14: a get_source that returned left the cursor on -1 or on a sidecar
\* index; "next" went from the last sidecar index to -1 and otherwise one
\* up, "previous" from -1 to the last sidecar index and otherwise one down;
\* a request that names no source, first after a load, left the cursor on 0
\* with use_sidecar and on -1 without.
C14_SourceRing ==
    (GotSource /\ res.err = "none")
        => /\ InRing(mf, Val(mf.src))
           /\ (call.position.kind = "next" /\ InRing(mf, Cursor(before.m)))
                 => Val(mf.src) = IF Cursor(before.m) = Len(mf.sidecars) - 1
                                  THEN -1 ELSE Cursor(before.m) + 1
           /\ (call.position.kind = "previous" /\ InRing(mf, Cursor(before.m)))
                 => Val(mf.src) = IF Cursor(before.m) = -1
                                  THEN Len(mf.sidecars) - 1
                                  ELSE Cursor(before.m) - 1
           /\ (call.position = [kind |-> "name", name |-> <<>>] /\ before.m.src = None)
                 => Val(mf.src) = IF cfg.use_sidecar THEN 0 ELSE -1

\* with use_sidecar and one sidecar, "next" has just gone from 0 to -1
C14_Witness ==
    /\ GotSource
    /\ res.err = "none"
    /\ cfg.use_sidecar
    /\ Len(mf.sidecars) = 1
    /\ call.position.kind = "next"
    /\ before.m.src = Some(0)
    /\ mf.src = Some(-1)

\* C15: a get_source that found the file of its target gone raised
\* FileNotFoundError and removed the sidecar when the target was a sidecar,
\* and raised IndexError and kept the sidecars when it was the media file.
C15_StaleSource ==
    GotSource =>
        LET m == [before.m EXCEPT !.src = Some(Cursor(before.m))]
            index == RequestedIndex(m, call.position)
        IN  /\ (InRing(m, index) /\ index >= 0
                /\ PathOf(m.sidecars[index + 1]) \notin fs)
                  => /\ res.err = "FileNotFoundError"
                     /\ Len(mf.sidecars) = Len(m.sidecars) - 1
            /\ (index = -1 /\ PathOf(m) \notin fs)
                  => /\ res.err = "IndexError"
                     /\ mf.sidecars = m.sidecars

-----------------------------------------------------------------------------
(* MediaList.get_mediafile: the cursor over the list *)

\* the greatest number a jump command is given, and the least one negated
MaxPosition == 4

\* list[i] of Python for a list of n items: the place, counted from 1, of
\* index i, which may count from the end; 0 when there is no such item
Place(n, i) == IF i >= 0 /\ i < n THEN i + 1
               ELSE IF i < 0 /\ i >= -n THEN n + i + 1
               ELSE 0

\* a "previous" that wraps from the first item whatever the configuration
PreviousWraps(current, n) == IF current <= 0 THEN n - 1 ELSE current - 1
\* get_mediafile, "elif position == 'previous':"
PreviousItem(current, n) ==
    IF current <= 0 THEN (IF cfg.rename_files THEN 0 ELSE n - 1) ELSE current - 1

\* get_mediafile, the index position asks for; position.kind is "next",
\* "previous", "first", "last", "number" (a string int() reads) or
\* "current" (any other string)
RequestedItem(list, position) ==
    CASE position.kind = "next" ->
            IF list.current >= Len(list.mediafiles) - 1 THEN 0 ELSE list.current + 1
      [] position.kind = "previous" -> PreviousItem(list.current, Len(list.mediafiles))
      [] position.kind = "first" -> 0
      [] position.kind = "last" -> Len(list.mediafiles) - 1
      [] position.kind = "number" ->
            IF Place(Len(list.mediafiles), position.number - 1) # 0
            THEN position.number - 1 ELSE list.current
      [] OTHER -> list.current

\* del self.__mediafiles[index]
WithoutItem(list, place) ==
    [list EXCEPT !.mediafiles = SubSeq(@, 1, place - 1) \o SubSeq(@, place + 1, Len(@))]

\* get_mediafile from "self.__mediafiles[self.__current].unload()" on: to
\* is the place of the requested item, from the place of the current one
MoveCursor(list, index, from, to) ==
    [list EXCEPT !.mediafiles =
                     [[@ EXCEPT ![from].is_loaded = "None"]
                         EXCEPT ![to].is_loaded = "True", ![to].src = None],
                 !.current = index]

\* get_mediafile from "if not self.__mediafiles[index].exists():" on
VisitItem(list, d, index) ==
    IF Place(Len(list.mediafiles), index) = 0
    THEN [ml |-> list, err |-> "IndexError"]
    ELSE IF PathOf(list.mediafiles[Place(Len(list.mediafiles), index)]) \notin d
    THEN [ml |-> WithoutItem(list, Place(Len(list.mediafiles), index)),
          err |-> "FileNotFoundError"]
    ELSE IF Place(Len(list.mediafiles), list.current) = 0
    THEN [ml |-> list, err |-> "IndexError"]
    ELSE [ml |-> MoveCursor(list, index, Place(Len(list.mediafiles), list.current),
                            Place(Len(list.mediafiles), index)),
          err |-> "none"]

\* MediaList.get_mediafile(position) on the disk d
GetMediafile(list, d, position) ==
    IF Len(list.mediafiles) = 0 THEN [ml |-> list, err |-> "IndexError"]
    ELSE VisitItem(list, d, RequestedItem(list, position))

-----------------------------------------------------------------------------
(* One MediaList and its cursor: scan, get_mediafile, files removed *)

nB == <<"b">> \o Jpg
nC == <<"c">> \o Jpg
NavDisk == [dir : {"work"}, name : {nA, nB, nC}]

InitNav ==
    /\ pc = "idle"
    /\ tags = {}
    /\ exists = TRUE
    /\ call = NoCall
    /\ res = NoRes
    /\ before = {}
    /\ before2 = {}
    /\ mf = NoMediaFile
    /\ ml = NoMediaList
    /\ locked = {}
    /\ tsets = EmptyTagsets
    /\ ms = NoSource
    /\ cfg \in {NoConfig, [NoConfig EXCEPT !.rename_files = TRUE]}
    /\ fs \in SUBSET NavDisk

\* what Sortingshop.load_mediafile and Sortingshop.jump may ask of the list
NavPositions ==
    [kind : {"next", "previous", "first", "last", "current"}, number : {0}]
    \cup [kind : {"number"}, number : (-MaxPosition)..MaxPosition]

RunGetMediafile(position) ==
    \E r \in {GetMediafile(ml, fs, position)} :
        /\ ml' = r.ml
        /\ res' = [err |-> r.err]
        /\ call' = [op |-> "get_mediafile", position |-> position]

\* MediaList.get_mediafile (Sortingshop.load_mediafile)
MLGetMediafile ==
    /\ pc = "idle"
    /\ \E position \in NavPositions : RunGetMediafile(position)
    /\ before' = [ml |-> ml, fs |-> fs]
    /\ pc' = "done1"
    /\ UNCHANGED <<tagVars, before2, cfg, fs, locked, tsets, ms, mf>>

\* the same request once more, as the loop of Sortingshop.load_mediafile
\* makes it after FileNotFoundError
MLGetMediafileAgain ==
    /\ pc = "done1"
    /\ call.op = "get_mediafile"
    /\ res.err = "FileNotFoundError"
    /\ call.position.kind # "current"
    /\ RunGetMediafile(call.position)
    /\ before' = [ml |-> ml, fs |-> fs]
    /\ before2' = before
    /\ pc' = "done2"
    /\ UNCHANGED <<tagVars, cfg, fs, locked, tsets, ms, mf>>

NextNav == Parse \/ MLGetMediafile \/ MLGetMediafileAgain \/ FileRemoved \/ Return

SpecNav == InitNav /\ [][NextNav]_vars

-----------------------------------------------------------------------------
(* Claims about the cursor of the list, checked under SpecNav *)

GotMediafile == pc \in {"done1", "done2"} /\ call.op = "get_mediafile"

AllOnDisk(list, d) ==
    \A i \in 1..Len(list.mediafiles) : PathOf(list.mediafiles[i]) \in d

\* C16: on a list with items, all on disk, and the cursor on an item,
\* get_mediafile returns with the same items and the cursor on 0 after
\* "next" from the last index and one up otherwise; after "previous" from
\* index 0 on the last index without rename_files and on 0 with it, and one
\* down otherwise; on 0 after "first" and on the last index after "last".
C16_CursorNavigation ==
    (/\ GotMediafile
     /\ Len(before.ml.mediafiles) > 0
     /\ AllOnDisk(before.ml, fs)
     /\ before.ml.current \in 0..(Len(before.ml.mediafiles) - 1))
        => LET n == Len(before.ml.mediafiles)
               old == before.ml.current
           IN  /\ res.err = "none"
               /\ Names(ml) = Names(before.ml)
               /\ call.position.kind = "next"
                     => ml.current = IF old = n - 1 THEN 0 ELSE old + 1
               /\ call.position.kind = "previous"
                     => ml.current = IF old > 0 THEN old - 1
                                     ELSE IF cfg.rename_files THEN 0 ELSE n - 1
               /\ call.position.kind = "first" => ml.current = 0
               /\ call.position.kind = "last" => ml.current = n - 1

\* "previous" from index 0 of three items, without rename_files
C16_Witness ==
    /\ GotMediafile
    /\ res.err = "none"
    /\ ~cfg.rename_files
    /\ call.position.kind = "previous"
    /\ Len(ml.mediafiles) = 3
    /\ before.ml.current = 0
    /\ ml.current = 2

\* one step of the ring of n items from index i: up for "next", down for
\* "previous"
RingStep(kind, i, n) == IF kind = "next" THEN (i + 1) % n ELSE (i + n - 1) % n

\* the places of the items of list whose files are not on the disk d
Missing(list, d) ==
    {i \in 1..Len(list.mediafiles) : PathOf(list.mediafiles[i]) \notin d}

\* C17: a "next" or "previous" (without rename_files) that met the one
\* item of the list whose file is gone, not the current item, removed it
\* and raised FileNotFoundError; the same request again returned the item
\* one further step along the ring from the item that was current.
C17_RetrySkipsTheGap ==
    (/\ pc = "done2"
     /\ call.op = "get_mediafile"
     /\ call.position.kind \in {"next", "previous"}
     /\ call.position.kind = "previous" => ~cfg.rename_files
     /\ before2.ml.current \in 0..(Len(before2.ml.mediafiles) - 1)
     /\ Missing(before2.ml, fs) =
           {RingStep(call.position.kind, before2.ml.current,
                     Len(before2.ml.mediafiles)) + 1}
     /\ (before2.ml.current + 1) \notin Missing(before2.ml, fs))
        => LET n == Len(before2.ml.mediafiles)
               gone == RingStep(call.position.kind, before2.ml.current, n)
               expected == RingStep(call.position.kind, gone, n)
           IN  /\ Names(before.ml) = Names(WithoutItem(before2.ml, gone + 1))
               /\ res.err = "none"
               /\ Place(Len(ml.mediafiles), ml.current) # 0
               /\ ml.mediafiles[Place(Len(ml.mediafiles), ml.current)].name
                     = before2.ml.mediafiles[expected + 1].name

\* the place in the list of the item a request targets, 0 when none
Targeted(list, position) ==
    IF Len(list.mediafiles) = 0 THEN 0
    ELSE Place(Len(list.mediafiles), RequestedItem(list, position))

\* C18: get_mediafile raises IndexError exactly when the list holds no
\* item, and FileNotFoundError exactly when the file of the targeted item
\* is gone.
C18_ErrorsTellEmptyFromMissing ==
    GotMediafile
        => /\ res.err = "IndexError" <=> Len(before.ml.mediafiles) = 0
           /\ res.err = "FileNotFoundError"
                 <=> /\ Targeted(before.ml, call.position) # 0
                     /\ PathOf(before.ml.mediafiles[Targeted(before.ml, call.position)])
                           \notin fs

-----------------------------------------------------------------------------
(* Claims about the renaming of sidecars, checked under SpecPrepare *)

\* the prepare that has just returned renamed the media file
Renamed ==
    /\ pc = "done1"
    /\ call.op = "prepare"
    /\ res.err = "none"
    /\ mf.name # before.m.name

\* C19: after the parent was renamed, a sidecar without counter is called
\* parent name + ".xmp", and a sidecar with a counter of width w is called
\* parent stem + "_" + counter + parent suffix + ".xmp", the counter of
\* width w and the lowest from 1 up whose name is in neither directory.
C19_CounterWidthKept ==
    Renamed =>
        \A i \in 1..Len(before.m.sidecars) :
            mf.sidecars[i].name =
                IF before.m.sidecars[i].counter = None THEN mf.name \o Xmp
                ELSE CountNameUp(before.fs, PathStem(mf.name),
                                 PathSuffix(mf.name) \o Xmp,
                                 Len(Val(before.m.sidecars[i].counter)), 1)

-----------------------------------------------------------------------------
(* MetadataSource.load and unload *)

\* load, "order = [...]"
DateOrder == <<"FileModifyDate", "ModifyDate", "CreateDate", "DateTimeOriginal">>
DateKeys == {DateOrder[i] : i \in DOMAIN DateOrder}

\* the forms of a date the tool prints: "zone" is 25 characters long and
\* ends in +HH:MM, "naive" is 19 characters long and has no zone, "compact"
\* ends in +HHMM, "bad" is anything else
DateForms == {"zone", "naive", "bad"}

\* load, "if len(date) == 25: ... elif len(date) == 19: ..."
Normalised(form) ==
    IF form = "zone" THEN "compact" ELSE IF form = "naive" THEN "utc" ELSE form

\* datetime.strptime(date, '%Y:%m:%d %H:%M:%S%z') of the value of field key
Strptime(key, form) ==
    IF form \in {"compact", "utc"}
    THEN [date |-> Some([field |-> key, zone |-> IF form = "utc" THEN "+0000" ELSE "own"]),
          err |-> "none"]
    ELSE [date |-> None, err |-> "ValueError"]

\* a loop that takes the first field present and stops
RECURSIVE DateLoop(_, _, _)
DateLoopFirstWins(metadata, i, acc) ==
    IF i > Len(DateOrder) \/ acc.err # "none" \/ acc.date # None THEN acc
    ELSE IF DateOrder[i] \notin DOMAIN metadata THEN DateLoop(metadata, i + 1, acc)
    ELSE LET parsed == Strptime(DateOrder[i], Normalised(metadata[DateOrder[i]]))
         IN  DateLoop(metadata, i + 1,
                      IF parsed.err # "none" THEN [acc EXCEPT !.err = parsed.err]
                      ELSE [acc EXCEPT !.date = parsed.date])
\* load, "for key in order:": every field present sets self._date
DateLoop(metadata, i, acc) ==
    IF i > Len(DateOrder) \/ acc.err # "none" THEN acc
    ELSE IF DateOrder[i] \notin DOMAIN metadata THEN DateLoop(metadata, i + 1, acc)
    ELSE LET parsed == Strptime(DateOrder[i], Normalised(metadata[DateOrder[i]]))
         IN  DateLoop(metadata, i + 1,
                      IF parsed.err # "none" THEN [acc EXCEPT !.err = parsed.err]
                      ELSE [acc EXCEPT !.date = parsed.date])

\* load, "self.get_metadata(keyword=tag_field, default='').split(', ')": the
\* text of the tag field as the sequence of its parts, the empty text being
\* one empty part
TagText(src) == IF src.subject = None THEN <<<<>>>> ELSE Val(src.subject)
Parts(text) == {text[i] : i \in DOMAIN text}

\* load after the loop: without a date IndexError, without a configured tag
\* field ValueError; else the tags of the tag field are loaded and the source
\* is marked loaded
Loaded(c, src, S, dated) ==
    IF dated.err # "none"
    THEN [ms |-> [src EXCEPT !.date = dated.date], tags |-> S, err |-> dated.err]
    ELSE IF dated.date = None THEN [ms |-> src, tags |-> S, err |-> "IndexError"]
    ELSE IF c.field_tags = <<>>
    THEN [ms |-> [src EXCEPT !.date = dated.date], tags |-> S, err |-> "ValueError"]
    ELSE [ms |-> [src EXCEPT !.date = dated.date, !.is_loaded = "True"],
          tags |-> LoadTags(S, Parts(TagText(src)), FALSE),
          err |-> "none"]

\* load, the lines of the tool's answer are stored over the dict kept
Merged(src, raw) ==
    [src EXCEPT !.metadata = raw.metadata @@ @,
                !.subject = IF raw.subject = None THEN @ ELSE raw.subject]

\* MetadataSource.load under the configuration c of a source with the tags S;
\* raw: the tool's answer
Load(c, src, S, raw) ==
    Loaded(c, Merged(src, raw), S,
           DateLoop(Merged(src, raw).metadata, 1, [date |-> src.date, err |-> "none"]))

\* MetadataSource.unload
Unload(src) == [NoSource EXCEPT !.is_loaded = "None"]

-----------------------------------------------------------------------------
(* Specification of a MetadataSource that is loaded and unloaded *)

\* what the tool can answer: any of the date fields, each in any form, and
\* the field of the tags or not
RawReports ==
    [metadata : UNION {[K -> DateForms] : K \in SUBSET DateKeys},
     subject : {None, Some(<<tA, tB>>)}]

InitLoad ==
    /\ pc = "idle"
    /\ tags = {}
    /\ exists = TRUE
    /\ call = NoCall
    /\ res = NoRes
    /\ before = {}
    /\ before2 = {}
    /\ cfg \in {NoConfig, [NoConfig EXCEPT !.field_tags = <<>>]}
    /\ fs = {}
    /\ locked = {}
    /\ tsets = EmptyTagsets
    /\ ms = NoSource
    /\ mf = NoMediaFile
    /\ ml = NoMediaList

\* source.load()
MSLoad ==
    /\ pc = "idle"
    /\ \E raw \in RawReports :
         \E r \in {Load(cfg, ms, tags, raw)} :
           /\ ms' = r.ms
           /\ tags' = r.tags
           /\ res' = [err |-> r.err]
           /\ call' = [op |-> "load", raw |-> raw]
    /\ pc' = "done1"
    /\ UNCHANGED <<exists, before, before2, cfg, fs, locked, tsets, mf, ml>>

\* source.unload()
MSUnload ==
    /\ pc = "idle"
    /\ ms' = Unload(ms)
    /\ tags' = {}
    /\ UNCHANGED <<pc, exists, call, res, before, before2, cfg, fs, locked, tsets, mf, ml>>

NextLoad == MSLoad \/ MSUnload \/ Return

SpecLoad == InitLoad /\ [][NextLoad]_vars

-----------------------------------------------------------------------------
(* Claims on SpecLoad *)

LoadReturned == pc = "done1" /\ call.op = "load"

\* the places in DateOrder of the date fields the metadata hold
Present == {i \in DOMAIN DateOrder : DateOrder[i] \in DOMAIN ms.metadata}

First(I) == CHOOSE i \in I : \A j \in I : i <= j
Last(I) == CHOOSE i \in I : \A j \in I : j <= i

\* C20, as stated: after load the creation date is that of the first field
\* present in the order FileModifyDate, ModifyDate, CreateDate,
\* DateTimeOriginal, and a load with none of the four present fails.
C20_FirstPresentWins ==
    LoadReturned =>
        /\ Present = {} => res.err # "none"
        /\ (Present # {} /\ res.err = "none") =>
               ms.date = Some([field |-> DateOrder[First(Present)],
                               zone |-> Val(ms.date).zone])

\* C20, amended: after a load that succeeded the creation date is that of the
\* last field present in the order FileModifyDate, ModifyDate, CreateDate,
\* DateTimeOriginal (DateTimeOriginal wins whenever it is present), without a
\* zone of its own in +0000; a load with none of the four present in the
\* metadata fails with IndexError and leaves the source not loaded.
C20_LastPresentWins ==
    LoadReturned =>
        /\ Present = {} =>
               /\ res.err = "IndexError"
               /\ ms.date = None
               /\ ms.is_loaded # "True"
        /\ (Present # {} /\ res.err = "none") =>
               /\ ms.is_loaded = "True"
               /\ ms.date = Some([field |-> DateOrder[Last(Present)],
                                  zone |-> IF ms.metadata[DateOrder[Last(Present)]] = "naive"
                                           THEN "+0000" ELSE "own"])

\* a load that succeeded with FileModifyDate and DateTimeOriginal present
C20_Witness ==
    /\ LoadReturned
    /\ res.err = "none"
    /\ {"FileModifyDate", "DateTimeOriginal"} \subseteq DOMAIN ms.metadata
    /\ Val(ms.date).field = "DateTimeOriginal"

\* the tags of the tag field of the tool's latest answer
LatestTags ==
    IF call.raw.subject = None THEN {}
    ELSE {tag \in Parts(Val(call.raw.subject)) : tag # <<>>}

\* C21: after every load that succeeded the metadata are exactly the pairs of
\* the tool's latest answer and the tag list holds exactly the tags of its
\* tag field: nothing of an earlier load survives.
C21_LoadReplaces ==
    (LoadReturned /\ res.err = "none") =>
        /\ ms.metadata = call.raw.metadata
        /\ ms.subject = call.raw.subject
        /\ tags = LatestTags

\* C22: after a load that failed the source is not reported as loaded, also
\* when an earlier load had succeeded.
C22_FailedLoadNotLoaded ==
    (LoadReturned /\ res.err # "none") => ms.is_loaded # "True"

-----------------------------------------------------------------------------
(* MetadataSource.set_rating and set_orientation *)

\* Python values handed to set_rating: ints, the bools (True is 1), strings
\* of an int and floats of an int's value
PyInt(n) == [type |-> "int", num |-> n]
Ratings ==
    {PyInt(n) : n \in {-2, -1, 0, 3, 5, 6}}
        \cup {[type |-> "bool", num |-> 1], [type |-> "str", num |-> 3],
              [type |-> "float", num |-> 3]}

\* isinstance(rating, int): bool is a subclass of int
IsInstanceInt(v) == v.type \in {"int", "bool"}

\* set_rating, "not isinstance(rating, int) or not -1 <= rating <= 5"
ValidRating(rating) == IsInstanceInt(rating) /\ -1 <= rating.num /\ rating.num <= 5

\* Python values handed to set_orientation: strings, and an int
PyStr(s) == [type |-> "str", chars |-> s]
Orientations ==
    {PyStr(s) : s \in {<<>>, <<"0">>, <<"1">>, <<"8">>, <<"9">>, <<"1", "2">>,
                       <<"1", "8">>}}
        \cup {[type |-> "int", chars |-> <<"1">>]}

\* s in t for strings: s is a substring of t
IsSubstring(s, t) ==
    \E i \in 0..(Len(t) - Len(s)) : SubSeq(t, i + 1, i + Len(s)) = s

\* set_orientation, "not isinstance(orientation, str) or orientation not in
\* '12345678'"
ValidOrientation(orientation) ==
    /\ orientation.type = "str"
    /\ IsSubstring(orientation.chars, <<"1", "2", "3", "4", "5", "6", "7", "8">>)

\* what the tool answers to a write: a text with "N image files updated" or
\* one without such a line
ToolReports == {None} \cup {Some(n) : n \in 0..2}

\* ExifTool.parse_result, result['updated']: the digit before " image files
\* updated" (the greedy ".*" leaves one digit to the group), 0 without the line
ParseUpdated(report) == IF report = None THEN 0 ELSE Val(report) % 10

\* a write that stores the value before it has read the tool's count
WriteOptimistic(src, ex, valid, field, value, report) ==
    IF ~ex THEN [ms |-> src, err |-> "FileNotFoundError", sent |-> FALSE]
    ELSE IF ~valid THEN [ms |-> src, err |-> "ValueError", sent |-> FALSE]
    ELSE [ms |-> [src EXCEPT ![field] = Some(value)],
          err |-> IF ParseUpdated(report) # 1 THEN "ChildProcessError" ELSE "none",
          sent |-> TRUE]
\* set_rating / set_orientation after the value was judged: exists, valid,
\* the command, the count, the cache
Write(src, ex, valid, field, value, report) ==
    IF ~ex THEN [ms |-> src, err |-> "FileNotFoundError", sent |-> FALSE]
    ELSE IF ~valid THEN [ms |-> src, err |-> "ValueError", sent |-> FALSE]
    ELSE IF ParseUpdated(report) # 1
    THEN [ms |-> src, err |-> "ChildProcessError", sent |-> TRUE]
    ELSE [ms |-> [src EXCEPT ![field] = Some(value)], err |-> "none", sent |-> TRUE]

\* MetadataSource.set_rating
SetRating(src, ex, rating, report) ==
    Write(src, ex, ValidRating(rating), "rating", rating, report)

\* MetadataSource.set_orientation
SetOrientation(src, ex, orientation, report) ==
    Write(src, ex, ValidOrientation(orientation), "orientation", orientation, report)

-----------------------------------------------------------------------------
(* Specification of a MetadataSource that is rated and turned *)

InitRate ==
    /\ pc = "idle"
    /\ tags = {}
    /\ exists = TRUE
    /\ call = NoCall
    /\ res = NoRes
    /\ before = {}
    /\ before2 = {}
    /\ cfg = NoConfig
    /\ fs = {}
    /\ locked = {}
    /\ tsets = EmptyTagsets
    /\ ms = NoSource
    /\ mf = NoMediaFile
    /\ ml = NoMediaList

Wrote(op, value, report, r) ==
    /\ ms' = r.ms
    /\ call' = [op |-> op, value |-> value, report |-> report]
    /\ res' = [err |-> r.err, sent |-> r.sent]
    /\ before' = ms
    /\ pc' = "done1"
    /\ UNCHANGED <<tags, exists, before2, cfg, fs, locked, tsets, mf, ml>>

\* source.set_rating(rating)
MSSetRating ==
    /\ pc = "idle"
    /\ \E rating \in Ratings, report \in ToolReports :
          Wrote("set_rating", rating, report, SetRating(ms, exists, rating, report))

\* source.set_orientation(orientation)
MSSetOrientation ==
    /\ pc = "idle"
    /\ \E orientation \in Orientations, report \in ToolReports :
          Wrote("set_orientation", orientation, report,
                SetOrientation(ms, exists, orientation, report))

NextRate == MSSetRating \/ MSSetOrientation \/ FileVanishes \/ Return

SpecRate == InitRate /\ [][NextRate]_vars

-----------------------------------------------------------------------------
(* Claims on SpecRate *)

RatingReturned == pc = "done1" /\ call.op = "set_rating"
OrientationReturned == pc = "done1" /\ call.op = "set_orientation"

\* an integer in [-1, 5]
IntegerRating(v) == v.type = "int" /\ v.num \in -1..5

\* C23: set_rating of a value that is not an integer in [-1, 5] fails with
\* ValueError before any command is sent to the tool, and the cached metadata
\* are unchanged.
C23_InvalidRatingRejected ==
    (RatingReturned /\ ~IntegerRating(call.value)) =>
        /\ res.err = "ValueError"
        /\ ~res.sent
        /\ ms = before

\* the eight one-character strings '1'..'8'
EightOrientations ==
    {PyStr(<<c>>) : c \in {"1", "2", "3", "4", "5", "6", "7", "8"}}

\* C24: set_orientation of any value other than the eight one-character
\* strings '1'..'8' fails with ValueError before any command is sent to the
\* tool and leaves the cached Orientation unchanged.
C24_OnlyEightOrientations ==
    (OrientationReturned /\ call.value \notin EightOrientations) =>
        /\ res.err = "ValueError"
        /\ ~res.sent
        /\ ms.orientation = before.orientation

\* C25: set_rating and set_orientation change the cached value only after the
\* tool reported exactly one updated file; after any other count the call
\* fails with ChildProcessError and the cache is as before the call.
C25_CacheFollowsTheCount ==
    (RatingReturned \/ OrientationReturned) =>
        /\ ms # before => (res.sent /\ call.report = Some(1))
        /\ (res.sent /\ call.report # Some(1)) =>
               (res.err = "ChildProcessError" /\ ms = before)

\* a rating of 5 sent for a source rated 3, of which the tool reports no
\* updated file
C25_Witness ==
    /\ RatingReturned
    /\ before.rating = Some(PyInt(3))
    /\ call.value = PyInt(5)
    /\ res.sent
    /\ call.report = Some(0)
    /\ ms.rating = Some(PyInt(3))

-----------------------------------------------------------------------------
(* Further claims about prepare, checked under SpecPrepare *)

\* C26: with apply_default_tagset on and ALL_PICTURES defined, prepare on a
\* loaded, not yet prepared MediaFile returns with the tags of ALL_PICTURES
\* added to the primary source and the file marked prepared (stated here by
\* what that takes: the call returns without an exception and the mark is
\* set).
C26_DefaultTagsetApplied ==
    (/\ FirstPrepare
     /\ cfg.apply_default_tagset
     /\ call.tagsets.given
     /\ GetTagset(call.tagsets, kAll) # {})
        => /\ res.err # "NameError"
           /\ (res.err = "none" => mf.is_prepared)

-----------------------------------------------------------------------------
(* Tagsets: load, update_tagsets, get_tagset *)

\* s.find(c) + 1: the first place of the character c in s, 0 if there is none
Find(s, c) ==
    IF \E i \in DOMAIN s : s[i] = c
    THEN CHOOSE i \in DOMAIN s : s[i] = c /\ \A j \in 1..(i - 1) : s[j] # c
    ELSE 0

\* s.split(c)
RECURSIVE Split(_, _)
Split(s, c) ==
    IF Find(s, c) = 0 THEN <<s>>
    ELSE <<SubSeq(s, 1, Find(s, c) - 1)>>
             \o Split(SubSeq(s, Find(s, c) + 1, Len(s)), c)

\* text.splitlines()
SplitLines(text) ==
    IF text = <<>> THEN <<>>
    ELSE IF text[Len(text)] = "\n" THEN Split(SubSeq(text, 1, Len(text) - 1), "\n")
    ELSE Split(text, "\n")

\* _parse_text, "[tag for tag in tags.split(',') if tag]", as a set
TagsOfLine(line) ==
    {tag \in Parts(Split(SubSeq(line, Find(line, " ") + 1, Len(line)), ",")) : tag # <<>>}

\* _parse_text, the abbreviation of a line that has a blank
AbbrOfLine(line) == SubSeq(line, 1, Find(line, " ") - 1)

\* _parse_text, one turn of the loop: a line without a blank or with a blank
\* in front is logged and skipped
ParseLine(acc, line) ==
    IF Find(line, " ") = 0 \/ AbbrOfLine(line) = <<>> THEN acc
    ELSE [k \in DOMAIN acc \cup {AbbrOfLine(line)} |->
            IF k = AbbrOfLine(line) THEN TagsOfLine(line) ELSE acc[k]]

RECURSIVE ParseLines(_, _)
ParseLines(acc, lines) ==
    IF lines = <<>> THEN acc
    ELSE ParseLines(ParseLine(acc, Head(lines)), Tail(lines))

\* Tagsets._parse_text
ParseText(text) == ParseLines(<<>>, SplitLines(text))

\* Tagsets.get_tagsets(origin): {} for an origin the dict does not hold
GetTagsets(d, origin) == IF origin \in DOMAIN d THEN d[origin] ELSE <<>>

\* the Tagsets object as get_tagset reads it
AsTagsets(d) ==
    [given |-> TRUE, local |-> GetTagsets(d, "local"), global |-> GetTagsets(d, "global")]

\* Tagsets.load, one origin: file is None when the path is empty or the file
\* cannot be opened
LoadFile(file) == IF file = None THEN <<>> ELSE ParseText(Val(file))

\* Tagsets.load
TagsetsLoad(local, global) ==
    [o \in {"local", "global"} |-> IF o = "local" THEN LoadFile(local) ELSE LoadFile(global)]

\* Tagsets.update_tagsets
UpdateTagsets(d, origin, text) ==
    IF text = <<>> THEN [ts |-> d, err |-> "none", message |-> TRUE]
    ELSE IF origin \notin {"local", "global"}
    THEN [ts |-> d, err |-> "NameError", message |-> FALSE]
    ELSE [ts |-> [o \in DOMAIN d \cup {origin} |->
                    IF o = origin THEN ParseText(text) ELSE d[o]],
          err |-> "none", message |-> FALSE]

-----------------------------------------------------------------------------
(* Specification of the Tagsets object *)

kY == <<"Y">>

\* texts of tagsets, as a file or the editor of the UI holds them
Texts ==
    {<<"X", " ", "a">>,
     <<"X", " ", "b", "\n", "Y", " ", "a", ",", "b", "\n">>,
     <<"X", " ", "a", "\n", "X", " ", "b", ",", ",", "a", "|", "b">>,
     <<"X", "\n", " ", "a">>,
     <<"Y", " ">>}

InitTagsets ==
    /\ pc = "idle"
    /\ tags = {}
    /\ exists = TRUE
    /\ call = NoCall
    /\ res = NoRes
    /\ before = {}
    /\ before2 = {}
    /\ cfg = NoConfig
    /\ fs = {}
    /\ locked = {}
    /\ tsets = EmptyTagsets
    /\ ms = NoSource
    /\ mf = NoMediaFile
    /\ ml = NoMediaList

\* the event set_working_dir: Tagsets.load
TSLoad ==
    /\ pc = "idle"
    /\ \E local \in {None} \cup {Some(t) : t \in Texts \cup {<<>>}},
          global \in {None} \cup {Some(t) : t \in Texts \cup {<<>>}} :
          /\ tsets' = TagsetsLoad(local, global)
          /\ call' = [op |-> "load", local |-> local, global |-> global]
    /\ res' = [err |-> "none"]
    /\ before' = tsets
    /\ pc' = "done1"
    /\ UNCHANGED <<tagVars, before2, cfg, fs, locked, ms, mf, ml>>

\* the event update_tagsets: Tagsets.update_tagsets
TSUpdateTagsets ==
    /\ pc = "idle"
    /\ \E origin \in {"local", "global", "other"}, text \in Texts \cup {<<>>} :
          \E r \in {UpdateTagsets(tsets, origin, text)} :
             /\ tsets' = r.ts
             /\ call' = [op |-> "update_tagsets", origin |-> origin, text |-> text]
             /\ res' = [err |-> r.err]
    /\ before' = tsets
    /\ pc' = "done1"
    /\ UNCHANGED <<tagVars, before2, cfg, fs, locked, ms, mf, ml>>

NextTagsets == TSLoad \/ TSUpdateTagsets \/ Return

SpecTagsets == InitTagsets /\ [][NextTagsets]_vars

-----------------------------------------------------------------------------
(* Claims on SpecTagsets *)

TagsetsReturned ==
    pc = "done1" /\ call.op \in {"load", "update_tagsets"} /\ res.err = "none"

Abbreviations == {kX, kY, <<"Z">>}

\* the lines of a text that define abbr: abbr, a blank, anything
LinesDefining(text, abbr) ==
    {i \in DOMAIN SplitLines(text) :
        /\ Find(SplitLines(text)[i], " ") > 1
        /\ AbbrOfLine(SplitLines(text)[i]) = abbr}

\* the tags the last such line gives abbr
DefinitionIn(text, abbr) ==
    TagsOfLine(SplitLines(text)[Last(LinesDefining(text, abbr))])

\* the text that last set the origin by the call that has returned; None if
\* that call left the origin as it was
TextSetting(origin) ==
    IF call.op = "load"
    THEN IF call[origin] = None THEN Some(<<>>) ELSE call[origin]
    ELSE IF call.origin = origin /\ call.text # <<>> THEN Some(call.text)
    ELSE None

\* the origin defines abbr, by its latest text
LatestDefines(origin, abbr) ==
    IF TextSetting(origin) = None THEN abbr \in DOMAIN GetTagsets(before, origin)
    ELSE LinesDefining(Val(TextSetting(origin)), abbr) # {}

LatestDefinition(origin, abbr) ==
    IF TextSetting(origin) = None THEN GetTagsets(before, origin)[abbr]
    ELSE DefinitionIn(Val(TextSetting(origin)), abbr)

\* C27: after every load and update_tagsets, get_tagset(abbr) is the latest
\* local definition of abbr if local defines it, else the latest global one,
\* else empty; an update of one origin leaves the other origin's mapping as
\* it was.
C27_LocalBeforeGlobal ==
    TagsetsReturned =>
        /\ \A abbr \in Abbreviations :
              GetTagset(AsTagsets(tsets), abbr) =
                  IF LatestDefines("local", abbr) THEN LatestDefinition("local", abbr)
                  ELSE IF LatestDefines("global", abbr)
                  THEN LatestDefinition("global", abbr)
                  ELSE {}
        /\ call.op = "update_tagsets" =>
              \A o \in {"local", "global"} \ {call.origin} :
                  GetTagsets(tsets, o) = GetTagsets(before, o)

\* global has been updated with a definition of X while local defines X
\* otherwise: the lookup gives the local one
C27_Witness ==
    /\ TagsetsReturned
    /\ call.op = "update_tagsets"
    /\ call.origin = "global"
    /\ kX \in DOMAIN GetTagsets(before, "local")
    /\ LinesDefining(call.text, kX) # {}
    /\ DefinitionIn(call.text, kX) # GetTagset(AsTagsets(tsets), kX)
    /\ GetTagset(AsTagsets(tsets), kX) = GetTagsets(before, "local")[kX]

-----------------------------------------------------------------------------
(* The order of the pipeline, checked under SpecPrepare *)

IsStep(command) == command # "load"
IsLoad(command) == command = "load"

Step(condition, command) == IF condition THEN <<command>> ELSE <<>>

\* the steps the pipeline owes a MediaFile m under the configuration
StepsOwed(m) ==
    <<"unify_dates">>
        \o Step(cfg.use_sidecar \/ cfg.prune_metadata, "create_sidecar")
        \o Step(cfg.prune_metadata, "prune")
        \o Step(cfg.prune_metadata /\ ~cfg.use_sidecar, "sidecar_to_mediafile")
        \o Step(cfg.rename_files /\ ~IsNamedCorrectly(m), "rename")

\* C28: when the pipeline runs and neither the tool nor the disk fails, the
\* steps are: unify dates; create the standard sidecar iff use_sidecar or
\* prune_metadata; prune iff prune_metadata; copy the tags back from the
\* standard sidecar and delete it iff prune_metadata and not use_sidecar;
\* rename iff rename_files and the name does not match; then unload and
\* reload, and only then is the file marked prepared.
C28_PipelineOrder ==
    (/\ FirstPrepare
     /\ ~SoftCheckPasses(before.m)
     /\ res.err \notin {"FileNotFoundError", "FileExistsError"})
        => /\ SelectSeq(res.cmds, IsStep) = StepsOwed(before.m)
           /\ (cfg.prune_metadata /\ ~cfg.use_sidecar) =>
                  [dir |-> mf.dir, name |-> mf.name \o Xmp] \notin fs
           /\ res.cmds # <<>> /\ res.cmds[Len(res.cmds)] = "load"
           /\ SelectSeq(res.cmds, IsLoad) = SubSeq(res.cmds, Len(StepsOwed(before.m)) + 1,
                                                   Len(res.cmds))

-----------------------------------------------------------------------------
(* Further claims about the scan, checked under SpecList *)

\* the media files on disk that pass the read/write check
AccessibleMedia == {p \in fs \ locked : PathSuffix(p.name) \in FileTypes}

\* the sidecars on disk that pass the check and have a parent in their
\* directory
AccessibleSidecars == {p \in fs \ locked : PathSuffix(p.name) = Xmp /\ p \notin Orphans}

\* the parent of such a sidecar: the file of the standard name if there is
\* one, else the file of the name without the counter
ParentOf(p) ==
    [dir |-> p.dir,
     name |-> IF OnDisk(fs, p.dir, StandardParentOf(p.name))
              THEN StandardParentOf(p.name) ELSE CounterParentOf(p.name)]

ItemsNamed(n) == {i \in 1..Len(ml.mediafiles) : ml.mediafiles[i].name = n}

\* the places at which the sidecar p is attached: <<item, place in the item>>
Attachments(p) ==
    {ik \in (1..Len(ml.mediafiles)) \X (1..2 * Cardinality(ListNames)) :
        /\ ik[2] <= Len(ml.mediafiles[ik[1]].sidecars)
        /\ PathOf(ml.mediafiles[ik[1]].sidecars[ik[2]]) = p}

\* C29: whatever the order in which the entries of the two directories are
\* listed, a scan that returns yields exactly one MediaFile per accessible
\* media file name, at that file's path, and every accessible sidecar with a
\* parent is attached exactly once, to the MediaFile of its parent.
C29_ScanOrderIndependent ==
    (Parsed /\ res.err = "none")
        => /\ \A p \in AccessibleMedia :
                 /\ Cardinality(ItemsNamed(p.name)) = 1
                 /\ \A i \in ItemsNamed(p.name) : PathOf(ml.mediafiles[i]) = p
           /\ \A p \in AccessibleSidecars :
                 /\ Cardinality(Attachments(p)) = 1
                 /\ \A ik \in Attachments(p) : PathOf(ml.mediafiles[ik[1]]) = ParentOf(p)

\* a scan that lists the standard sidecar before its media file and the
\* counter sidecar after it, and attaches both
C29_Witness ==
    /\ Parsed
    /\ res.err = "none"
    /\ call.work = <<nA \o Xmp, nA, CounterSidecarOf(nA)>>
    /\ {[dir |-> "work", name |-> nA \o Xmp], [dir |-> "work", name |-> CounterSidecarOf(nA)]}
           \subseteq AccessibleSidecars
    /\ Len(ml.mediafiles) = 1
    /\ Len(ml.mediafiles[1].sidecars) = 2

\* the accessible sidecars whose parent, by the standard name, lies in the
\* other directory only and is accessible
AcrossTheSplit ==
    {p \in fs \ locked :
        /\ PathSuffix(p.name) = Xmp
        /\ ~OnDisk(fs, p.dir, StandardParentOf(p.name))
        /\ [dir |-> Other(p.dir), name |-> StandardParentOf(p.name)] \in fs \ locked}

\* C30: a sidecar in one of the two directories whose parent lies in the
\* other one is attached by the scan to the MediaFile of its parent and is
\* not reported as an orphan.
C30_AttachedAcrossTheSplit ==
    (Parsed /\ res.err = "none")
        => \A p \in AcrossTheSplit :
              /\ p \notin ml.missing_parents
              /\ \E ik \in Attachments(p) :
                    PathOf(ml.mediafiles[ik[1]])
                        = [dir |-> Other(p.dir), name |-> StandardParentOf(p.name)]

-----------------------------------------------------------------------------
(* Further claims about the cursor of the list, checked under SpecNav *)

\* the places of the loaded items of a list
LoadedItems(list) ==
    {i \in 1..Len(list.mediafiles) : list.mediafiles[i].is_loaded = "True"}

\* C31: at any time at most one item of the list is loaded, after every
\* sequence of get_mediafile requests, those that evict a stale entry and
\* raise included.
C31_AtMostOneLoaded ==
    Cardinality(LoadedItems(ml)) <= 1

\* C36: whenever the list holds items the cursor is an index in 0..len-1
\* (so that get_current_index() is in 1..len).
C36_CursorInBounds ==
    Len(ml.mediafiles) > 0 => ml.current \in 0..(Len(ml.mediafiles) - 1)

\* C40: on a list whose files are all on disk and whose cursor is on an
\* item, get_mediafile with the number k puts the cursor on item k (index
\* k - 1) when 1 <= k <= len, and leaves the cursor where it was for every
\* other number.
C40_NumberSelectsOrStays ==
    (/\ GotMediafile
     /\ call.position.kind = "number"
     /\ Len(before.ml.mediafiles) > 0
     /\ AllOnDisk(before.ml, fs)
     /\ before.ml.current \in 0..(Len(before.ml.mediafiles) - 1))
        => /\ res.err = "none"
           /\ ml.current = IF call.position.number \in 1..Len(before.ml.mediafiles)
                           THEN call.position.number - 1
                           ELSE before.ml.current

-----------------------------------------------------------------------------
(* A further claim about the cursor over the sources, checked under SpecSource *)

\* C37: whenever the cursor over the sources is set it is -1 (the media
\* file) or the index of an attached sidecar, under every configuration and
\* after every get_source; with use_sidecar and no sidecar attached it is -1.
C37_SourceCursorInBounds ==
    mf.src # None => InRing(mf, Val(mf.src))

-----------------------------------------------------------------------------
(* One MediaFile and its sidecars: get_source and _remove_sidecar *)

\* MediaFile._remove_sidecar(index) on the loaded MediaFile, the step
\* prepare takes for the standard sidecar after it has copied the tags back
MFRemoveSidecar ==
    /\ pc = "idle"
    /\ mf.is_loaded = "True"
    /\ \E index \in 0..Len(mf.sidecars) :
          \E st \in {RemoveSidecar([m |-> mf, fs |-> fs, cmds |-> <<>>, err |-> "none"],
                                   Some(index))} :
             /\ mf' = st.m
             /\ fs' = st.fs
             /\ res' = [err |-> st.err, cmds |-> st.cmds]
             /\ call' = [op |-> "_remove_sidecar", index |-> index]
    /\ before' = [m |-> mf, fs |-> fs]
    /\ pc' = "done1"
    /\ UNCHANGED <<tagVars, before2, cfg, locked, tsets, ms, ml>>

NextSidecars ==
    MFLoad \/ MFUnload \/ MFGetSource \/ MFRemoveSidecar \/ FileRemoved \/ Return

SpecSidecars == InitSource /\ [][NextSidecars]_vars

-----------------------------------------------------------------------------
(* A claim about the standard sidecar, checked under SpecSidecars *)

\* the index of the standard sidecar of m, when set, is an index into the
\* sidecars of m, of a sidecar called <name of m>.xmp
StandardIndexValid(m) ==
    m.std # None => /\ Val(m.std) \in 0..(Len(m.sidecars) - 1)
                    /\ m.sidecars[Val(m.std) + 1].name = m.name \o Xmp

\* C38: whenever the index of the standard sidecar is set, it is an index
\* into the sidecars and the sidecar there is called <name of the media
\* file>.xmp, after add_sidecars, after _remove_sidecar and after a
\* get_source that met a stale sidecar.
C38_StandardIndexValid ==
    StandardIndexValid(mf)

-----------------------------------------------------------------------------
(* The counter probe on a disk with counted names taken *)

\* the greatest counter a name on the disk carries
MaxCounter == 10
\* the counter lengths configured
CounterLengths == {1, 2}

\* _count_name_up, "'{}_{}{}'.format(stem, str(counter).zfill(counter_length), suffix)"
CountedName(stem, counter, counter_length, suffix) ==
    stem \o <<"_">> \o ZFill(DecStr(counter), counter_length) \o suffix

\* n_<counter>.jpg is taken for the counters up to taken, gap excepted, in
\* the working directory up to split and in its deleted subdirectory above
InitCounter ==
    /\ pc = "idle"
    /\ tags = {}
    /\ exists = TRUE
    /\ call = NoCall
    /\ res = NoRes
    /\ before = {}
    /\ before2 = {}
    /\ locked = {}
    /\ tsets = EmptyTagsets
    /\ ms = NoSource
    /\ mf = NoMediaFile
    /\ ml = NoMediaList
    /\ cfg \in {[NoConfig EXCEPT !.counter_length = n] : n \in CounterLengths}
    /\ \E taken \in 0..MaxCounter, split \in 0..MaxCounter, gap \in 0..MaxCounter :
          fs = {[dir |-> IF counter <= split THEN "work" ELSE "deleted",
                 name |-> CountedName(<<"n">>, counter, cfg.counter_length, Jpg)] :
                    counter \in (1..taken) \ {gap}}

\* MetadataSource._count_name_up(working_dir, 'n', '.jpg', counter_length),
\* as MediaFile.rename calls it
MSCountNameUp ==
    /\ pc = "idle"
    /\ res' = [err |-> "none",
               name |-> CountNameUp(fs, <<"n">>, Jpg, cfg.counter_length, 1)]
    /\ call' = [op |-> "_count_name_up"]
    /\ pc' = "done1"
    /\ UNCHANGED <<tagVars, before, before2, mediaVars>>

NextCounter == MSCountNameUp \/ Return

SpecCounter == InitCounter /\ [][NextCounter]_vars

-----------------------------------------------------------------------------
(* A claim about the counter probe, checked under SpecCounter *)

CountedUp == pc = "done1" /\ call.op = "_count_name_up"

\* the digits of the counter in the name n_<counter>.jpg
CounterDigits(name) == Len(name) - Len(<<"n", "_">>) - Len(Jpg)

\* C34: the name the counter probe returns has a counter of no more digits
\* than the configured counter length.
C34_CounterWithinWidth ==
    CountedUp => CounterDigits(res.name) <= cfg.counter_length

-----------------------------------------------------------------------------
(* A further claim about MediaFile.rename, checked under SpecPrepare *)

DigitChars == {Digit(d) : d \in 0..9}

\* name is stem_<counter> suffix .xmp for the stem and suffix of parent and
\* a counter of one or more digits
CountedFor(name, parent) ==
    LET front == PathStem(parent) \o <<"_">>
        back == PathSuffix(parent) \o Xmp
    IN  /\ Len(name) > Len(front) + Len(back)
        /\ SubSeq(name, 1, Len(front)) = front
        /\ SubSeq(name, Len(name) - Len(back) + 1, Len(name)) = back
        /\ \A i \in (Len(front) + 1)..(Len(name) - Len(back)) : name[i] \in DigitChars

\* the sidecar scar is named as the sidecar of the media file called parent
PairsWith(scar, parent) ==
    IF scar.counter = None THEN scar.name = parent \o Xmp
    ELSE CountedFor(scar.name, parent)

\* C32: after a rename that succeeded, the name of the media file is not in
\* the working directory and in deleted at once, the media file is on disk
\* under that name, and every attached sidecar is on disk under the name
\* that pairs with it: name.xmp without counter, stem_counter suffix .xmp
\* with one.
C32_RenamedFamily ==
    Renamed =>
        /\ ~(OnDisk(fs, "work", mf.name) /\ OnDisk(fs, "deleted", mf.name))
        /\ PathOf(mf) \in fs
        /\ \A i \in 1..Len(mf.sidecars) :
              /\ PairsWith(mf.sidecars[i], mf.name)
              /\ PathOf(mf.sidecars[i]) \in fs

\* a.jpg, renamed to n.jpg while deleted held an n.jpg, was counted up and
\* took its two sidecars, one with a counter, along
C32_Witness ==
    /\ Renamed
    /\ mf.name # call.new_name
    /\ Len(mf.sidecars) = 2
    /\ mf.sidecars[1].counter # None
    /\ mf.sidecars[2].counter = None
    /\ OnDisk(before.fs, Other(mf.dir), call.new_name)

-----------------------------------------------------------------------------
(* One MetadataSource on disk: move and rename *)

\* the object is a.jpg, in the working directory or in deleted; n.jpg and
\* the a.jpg of the other directory may be on disk
InitMove ==
    /\ pc = "idle"
    /\ tags = {}
    /\ exists = TRUE
    /\ call = NoCall
    /\ res = NoRes
    /\ before = {}
    /\ before2 = {}
    /\ cfg = NoConfig
    /\ locked = {}
    /\ tsets = EmptyTagsets
    /\ ms = NoSource
    /\ ml = NoMediaList
    /\ \E dir \in Dirs :
          /\ mf = NewMediaFile(dir, nA)
          /\ \E others \in SUBSET {[dir |-> dir, name |-> nN],
                                   [dir |-> Other(dir), name |-> nA],
                                   [dir |-> Other(dir), name |-> nN]} :
                fs = {[dir |-> dir, name |-> nA]} \cup others

\* the targets of move: none, '', a bare name, a directory, a path
MoveTargets ==
    {None} \cup {Some(t) : t \in [dir : {""} \cup Dirs, name : {<<>>, nA, nN}]}

\* the names given to rename: none, '', a bare name, a name with "/" or "\"
RenameNames ==
    {None} \cup {Some(n) : n \in {<<>>, nA, nN, <<"d", "/">> \o nN, <<"d", "\\">> \o nN}}

\* the outcome r of move or rename is stored in the object
Relocated(r) ==
    /\ fs' = r.fs
    /\ mf' = [mf EXCEPT !.dir = r.path.dir, !.name = r.path.name]
    /\ res' = [err |-> r.err]
    /\ before' = [m |-> mf, fs |-> fs]
    /\ pc' = "done1"
    /\ UNCHANGED <<tagVars, before2, cfg, locked, tsets, ms, ml>>

\* MetadataSource.move
MSMoveTo ==
    /\ pc = "idle"
    /\ \E target \in MoveTargets :
          /\ call' = [op |-> "move", target |-> target]
          /\ Relocated(Move(fs, PathOf(mf), target))

\* MetadataSource.rename
MSRename ==
    /\ pc = "idle"
    /\ \E name \in RenameNames :
          /\ call' = [op |-> "rename", name |-> name]
          /\ Relocated(Rename(fs, PathOf(mf), name))

NextMove == MSMoveTo \/ MSRename \/ FileRemoved \/ Return

SpecMove == InitMove /\ [][NextMove]_vars

-----------------------------------------------------------------------------
(* A claim about move and rename, checked under SpecMove *)

MoveReturned == pc = "done1" /\ call.op = "move"
RenameReturned == pc = "done1" /\ call.op = "rename"

\* the file a target of move names, for the object m
Destination(m, target) ==
    IF target.dir = "" THEN [dir |-> m.dir, name |-> target.name]
    ELSE IF target.name = <<>> THEN [dir |-> target.dir, name |-> m.name]
    ELSE target

\* no target: None or the empty string
EmptyTarget(target) == target \in {None, Some([dir |-> "", name |-> <<>>])}

\* C33: a move without target (None or '') raises ValueError and a move to
\* an occupied destination raises FileExistsError, a rename to a name with a
\* path separator raises ValueError; in each case the path of the object and
\* the disk are as before.
C33_MoveErrors ==
    /\ (MoveReturned /\ EmptyTarget(call.target)) => res.err = "ValueError"
    /\ (MoveReturned /\ ~EmptyTarget(call.target)
          /\ Destination(before.m, Val(call.target)) \in before.fs)
            => res.err = "FileExistsError"
    /\ (RenameReturned /\ call.name # None /\ HasSeparator(Val(call.name)))
            => res.err = "ValueError"
    /\ ((MoveReturned \/ RenameReturned) /\ res.err \in {"ValueError", "FileExistsError"})
            => (mf = before.m /\ fs = before.fs)

-----------------------------------------------------------------------------
(* A further claim about the tag engine, checked under SpecTags *)

\* the command MetadataSource.toggle_tags builds, run on a file holding the
\* tags D: every "-hierarchicalSubject-=tag", then every
\* "-hierarchicalSubject+=tag"
Command(D, remove, add) == (D \ remove) \cup add

\* C35: after TagList.toggle_tags, whatever the tags held before and the
\* batch, the tags held in memory are the ones the tool command built from
\* the returned sets (all of remove, then all of add) leaves on a file that
\* held the tags of before.
C35_MemoryFollowsTheCommand ==
    (Returned /\ call.op \in {"toggle_tags", "ms_toggle_tags"} /\ res.err = "none")
        => tags = Command(before, res.remove, res.add)

-----------------------------------------------------------------------------
(* The controller: the loops of load_mediafile and load_source *)

\* the frames of calls a handler may have open before Python gives up
MaxDepth == 3

\* a call of load_mediafile or load_source that has not returned yet
Frame(op, position) == [op |-> op, position |-> position]
kDefault == [kind |-> "name", name |-> <<>>]
kNext == [kind |-> "next", number |-> 0]

\* the state between two handlers: no call open
NoFrames == [op |-> "control", stack |-> <<>>]
NoNotice == [err |-> "none", notice |-> "none", picture |-> "none"]

\* self.__ui.display_message(..) / display_picture(..)
Notice(r, notice) == [r EXCEPT !.notice = notice]
Picture(r, picture) == [r EXCEPT !.picture = picture]

\* the object self.__current_mediafile refers to is the one the list holds
\* while it is listed
Listed(list, m) ==
    {i \in 1..Len(list.mediafiles) : PathOf(list.mediafiles[i]) = PathOf(m)}
Referred(list, m) ==
    IF Listed(list, m) = {} THEN m
    ELSE list.mediafiles[CHOOSE i \in Listed(list, m) : TRUE]
Stored(list, m) ==
    [list EXCEPT !.mediafiles =
        [i \in 1..Len(@) |-> IF i \in Listed(list, m) THEN m ELSE @[i]]]

\* the media files of the working directory
ControlDisk == [dir : {"work"}, name : {nA, nB}]

InitControl ==
    /\ pc = "idle"
    /\ tags = {}
    /\ exists = TRUE
    /\ call = NoFrames
    /\ res = NoNotice
    /\ before = {}
    /\ before2 = {}
    /\ mf = NoMediaFile
    /\ ml = NoMediaList
    /\ locked = {}
    /\ tsets = EmptyTagsets
    /\ ms = NoSource
    /\ cfg \in {NoConfig, [NoConfig EXCEPT !.use_sidecar = TRUE]}
    /\ fs \in SUBSET ControlDisk

\* an exception no handler catches ends every open call
Uncaught(err) ==
    /\ call' = NoFrames
    /\ res' = [res EXCEPT !.err = err]
    /\ pc' = "idle"

\* the call on top returns, after the displays r
Returns(r) ==
    /\ call' = [call EXCEPT !.stack = Tail(@)]
    /\ res' = r
    /\ pc' = IF Tail(call.stack) = <<>> THEN "idle" ELSE "run"

\* the loop of the call on top goes round again
Retries(r) ==
    /\ call' = call
    /\ res' = r
    /\ pc' = "run"

\* the event set_working_dir: MediaList.parse
SetWorkingDir ==
    /\ pc = "idle"
    /\ \E work \in Orders(NamesIn(fs, "work")) :
          ml' = MLParse(fs, {}, work, <<>>).ml
    /\ mf' = NoMediaFile
    /\ res' = NoNotice
    /\ UNCHANGED <<pc, tagVars, call, before, before2, cfg, fs, locked, tsets, ms>>

\* a command of the user: load_mediafile(position)
StartLoadMediafile ==
    /\ pc = "idle"
    /\ \E position \in [kind : {"next", "previous", "first", "current"}, number : {0}] :
          call' = [call EXCEPT !.stack = <<Frame("load_mediafile", position)>>]
    /\ res' = NoNotice
    /\ pc' = "run"
    /\ UNCHANGED <<tagVars, before, before2, mediaVars>>

\* a command of the user: load_source(position)
StartLoadSource ==
    /\ pc = "idle"
    /\ \E position \in [kind : {"next", "previous"}, name : {<<>>}] :
          call' = [call EXCEPT !.stack = <<Frame("load_source", position)>>]
    /\ res' = NoNotice
    /\ pc' = "run"
    /\ UNCHANGED <<tagVars, before, before2, mediaVars>>

\* load_mediafile from "mediafile.prepare(tagsets=self.__tagsets)" on, for
\* the list as get_mediafile left it and the outcome st of prepare
Prepared(list, st) ==
    /\ ml' = Stored(list, st.m)
    /\ fs' = st.fs
    /\ IF st.err # "none"
       THEN /\ mf' = Referred(Stored(list, st.m), mf)
            /\ Uncaught(st.err)
       ELSE /\ mf' = st.m
            /\ call' = [call EXCEPT !.stack = <<Frame("load_source", kDefault)>> \o Tail(@)]
            /\ res' = Picture(res, "mediafile")
            /\ pc' = "run"

\* load_mediafile, one round of the loop, for the outcome r of get_mediafile
MediafileRound(position, r) ==
    IF r.err = "FileNotFoundError"
    THEN /\ ml' = r.ml
         /\ mf' = mf
         /\ fs' = fs
         /\ IF position.kind = "current"
            THEN Returns(Picture(Notice(res, "current media file not found"), "default"))
            ELSE Retries(res)
    ELSE IF r.err = "IndexError"
    THEN /\ ml' = r.ml
         /\ mf' = mf
         /\ fs' = fs
         /\ Returns(Picture(Notice(res, "no media files found"), "default"))
    ELSE \E written \in BOOLEAN :
            \E st \in {Prepare([m |-> r.ml.mediafiles[Place(Len(r.ml.mediafiles),
                                                             r.ml.current)],
                                fs |-> fs, cmds |-> <<>>, err |-> "none"],
                               [op |-> "prepare", tagsets |-> NoTagsets,
                                written |-> written, new_name |-> <<>>])} :
                Prepared(r.ml, st)

\* Sortingshop.load_mediafile: one round of its loop and what follows it
LoadMediafile ==
    /\ pc = "run"
    /\ Head(call.stack).op = "load_mediafile"
    /\ \E r \in {GetMediafile(ml, fs, Head(call.stack).position)} :
          MediafileRound(Head(call.stack).position, r)
    /\ UNCHANGED <<tagVars, before, before2, cfg, locked, tsets, ms>>

\* load_source, one round of the loop, for the outcome st of get_source
SourceRound(position, st) ==
    /\ mf' = st.m
    /\ ml' = Stored(ml, st.m)
    /\ IF st.err = "none" THEN Returns(res)
       ELSE IF st.err = "FileNotFoundError"
       THEN IF position.kind = "current"
            THEN Uncaught("UnboundLocalError")
            ELSE Retries(res)
       ELSE IF st.err = "IndexError"
       THEN IF Len(call.stack) >= MaxDepth THEN Uncaught("RecursionError")
            ELSE /\ call' = [call EXCEPT !.stack = <<Frame("load_mediafile", kNext)>> \o @]
                 /\ res' = Notice(res, "media file not found")
                 /\ pc' = "run"
       ELSE Uncaught(st.err)

\* Sortingshop.load_source: one round of its loop and what follows it
LoadSource ==
    /\ pc = "run"
    /\ Head(call.stack).op = "load_source"
    /\ IF mf = NoMediaFile
       THEN /\ Uncaught("AttributeError")
            /\ UNCHANGED <<mf, ml>>
       ELSE \E st \in {GetSource([m |-> mf, fs |-> fs, cmds |-> <<>>, err |-> "none"],
                                  Head(call.stack).position)} :
               SourceRound(Head(call.stack).position, st)
    /\ UNCHANGED <<tagVars, before, before2, cfg, fs, locked, tsets, ms>>

\* the rounds the program takes by itself
Runs == LoadMediafile \/ LoadSource

NextControl ==
    SetWorkingDir \/ StartLoadMediafile \/ StartLoadSource \/ FileRemoved
        \/ LoadMediafile \/ LoadSource

SpecControl == InitControl /\ [][NextControl]_vars

\* a handler that can take its next round takes it
SpecControlRuns == SpecControl /\ WF_vars(Runs)

-----------------------------------------------------------------------------
(* A claim about the loops of the controller, checked under SpecControlRuns *)

\* C39: every call of load_mediafile and of load_source returns (or ends in
\* an exception) after finitely many rounds, whatever files are left on
\* disk, also when the current media file and every other listed file are
\* gone.
C39_LoopsTerminate ==
    (pc = "run") ~> (pc = "idle")

====
